---------------------------- MODULE Spec2Model ----------------------------
(***************************************************************************)
(* Two-stage rocket simulator: the fixed-timestep integrator               *)
(* (services/physicsEngine.ts), the landing guidance                       *)
(* (services/landingGuidance.ts) and the driver (App.tsx).                 *)
(*                                                                         *)
(* The source computes in IEEE doubles.  The model computes in fixed       *)
(* point, with units chosen so that the products by DT are exact:          *)
(*   time        ticks of DT = 0.05 s        (20 per second)               *)
(*   velocity    2 mm/s                      (VelScale = 500 per m/s)      *)
(*   altitude    0.1 mm = velocity unit * DT (AltScale per m)              *)
(*   downrange   mm                                                        *)
(*   fuel        50 g = 1 kg/s * DT          (FuelScale per kg)            *)
(*   mass        kg,  force N,  gravity mm/s^2                             *)
(*   angle       0.01 degree                                               *)
(*   density     1e-5 kg/m^3                                               *)
(* Every division rounds down (\div), where the source keeps a fraction.   *)
(***************************************************************************)
EXTENDS Integers, Sequences, FiniteSets, TLC

VARIABLES
  state,        \* App's SimulationState (useState, App.tsx:134)
  config,       \* App's RocketConfig (App.tsx:132)
  isRunning,    \* App.tsx:137
  currentView,  \* App.tsx:128
  prediction,   \* App's TrajectoryPoint[] (App.tsx:136)
  predictor,    \* the call of predictFlightPath in progress: its locals
  call,         \* the last call of a landingGuidance.ts function examined
                \* on its own: its name, arguments and result
  frameCount    \* frameCountRef.current modulo 10 (App.tsx:143)

vars ==
  <<state, config, isRunning, currentView, prediction, predictor, call,
    frameCount>>

---------------------------------------------------------------------------
(* Units *)

TicksPerSecond == 20
VelScale == 500
AltScale == VelScale * TicksPerSecond
FuelScale == TicksPerSecond
AngleScale == 100
ThrottleScale == 1000
Null == -1              \* null (separationTime, landingBurnStartAltitude)

---------------------------------------------------------------------------
(* constants.ts and the constants of physicsEngine.ts *)

GRAVITY == 9810                     \* mm/s^2
ROCKET_CROSS_SECTION_AREA == 25     \* tenths of m^2
EARTH_RADIUS == 6371000             \* m
EARTH_MU == 398600442               \* 1e6 m^3/s^2
SEPARATION_IMPULSE == 15 * VelScale
GraceTicks == 20
StagingDwellTicks == 40
MaxTurnRate == 50                   \* 0.5 degree per tick
LandingSpeedLimit == 10 * VelScale

\* ATMOSPHERE_LAYERS[i].maxAlt in m; the last layer's is Infinity.
LayerMaxAlt == <<11000, 20000, 47000, 51000, 71000, 85000, 200000>>
LayerNames ==
  <<"Troposphere", "Tropopause", "Stratosphere", "Stratopause",
    "Mesosphere", "Mesopause", "Thermosphere", "Exosphere">>

\* Density of each layer at altInLayer = 0 m, 1000 m, 2000 m, ..., as
\* getAtmosphericProperties computes it from the layer's base values
\* (barometric formula, then the ideal gas law), in 1e-5 kg/m^3.
LayerDensity ==
  << <<122498, 111158, 100639, 90899, 81897, 73594, 65951, 58930, 52496,
       46614, 41250, 36372>>,
     <<36391, 31080, 26545, 22671, 19363, 16537, 14124, 12063, 10302, 8799>>,
     <<8803, 7487, 6372, 5427, 4626, 3945, 3368, 2877, 2459, 2103, 1800,
       1542, 1322, 1134, 973, 836, 718, 618, 531, 458, 394, 340, 293, 253,
       219, 189, 163, 141>>,
     <<1322, 1126, 961, 821, 703>>,
     <<143, 127, 113, 100, 89, 79, 70, 61, 54, 48, 42, 37, 32, 28, 25, 22,
       19, 16, 14, 12, 11>>,
     <<6, 6, 5, 4, 3, 3, 3, 2, 2, 2, 1, 1, 1, 1, 1>>,
     <<1, 1, 0>>,
     <<0, 0>> >>

\* Math.cos and Math.sin of whole degrees 0..71, times 10000.
CosTable ==
  << 10000, 9998, 9994, 9986, 9976, 9962, 9945, 9925, 9903, 9877,
     9848, 9816, 9781, 9744, 9703, 9659, 9613, 9563, 9511, 9455,
     9397, 9336, 9272, 9205, 9135, 9063, 8988, 8910, 8829, 8746,
     8660, 8572, 8480, 8387, 8290, 8192, 8090, 7986, 7880, 7771,
     7660, 7547, 7431, 7314, 7193, 7071, 6947, 6820, 6691, 6561,
     6428, 6293, 6157, 6018, 5878, 5736, 5592, 5446, 5299, 5150,
     5000, 4848, 4695, 4540, 4384, 4226, 4067, 3907, 3746, 3584,
     3420, 3256 >>
SinTable ==
  << 0, 175, 349, 523, 698, 872, 1045, 1219, 1392, 1564,
     1736, 1908, 2079, 2250, 2419, 2588, 2756, 2924, 3090, 3256,
     3420, 3584, 3746, 3907, 4067, 4226, 4384, 4540, 4695, 4848,
     5000, 5150, 5299, 5446, 5592, 5736, 5878, 6018, 6157, 6293,
     6428, 6561, 6691, 6820, 6947, 7071, 7193, 7314, 7431, 7547,
     7660, 7771, 7880, 7986, 8090, 8192, 8290, 8387, 8480, 8572,
     8660, 8746, 8829, 8910, 8988, 9063, 9135, 9205, 9272, 9336,
     9397, 9455 >>

---------------------------------------------------------------------------
(* Math *)

Abs(x) == IF x < 0 THEN -x ELSE x
Sign(x) == IF x > 0 THEN 1 ELSE IF x < 0 THEN -1 ELSE 0
Min(a, b) == IF a < b THEN a ELSE b
Max(a, b) == IF a > b THEN a ELSE b

RECURSIVE SqrtBetween(_, _, _)
SqrtBetween(n, lo, hi) ==
  IF lo >= hi THEN lo
  ELSE LET mid == (lo + hi + 1) \div 2
       IN  IF mid * mid <= n THEN SqrtBetween(n, mid, hi)
           ELSE SqrtBetween(n, lo, mid - 1)

\* Math.sqrt, rounded down.
Sqrt(n) == SqrtBetween(n, 0, Min(n, 46340))

\* Math.cos / Math.sin of an angle in 0.01 degree, times 10000, linear
\* between whole degrees.
Interpolate(table, angle) ==
  LET d == angle \div AngleScale
      r == angle % AngleScale
  IN  table[d + 1] + ((table[d + 2] - table[d + 1]) * r) \div AngleScale

\* The sine in the cosine's place.
CosAsSin(angle) == Interpolate(SinTable, angle)

Cos(angle) == Interpolate(CosTable, angle)
Sin(angle) == Interpolate(SinTable, angle)

---------------------------------------------------------------------------
(* physicsEngine.ts: getAtmosphericProperties, getGravityTurnAngle *)

\* The layer search with "altitude < l.maxAlt".
RECURSIVE FindLayerStrict(_, _)
FindLayerStrict(altitude, i) ==
  IF i > Len(LayerMaxAlt) THEN i
  ELSE IF altitude < LayerMaxAlt[i] * AltScale THEN i
  ELSE FindLayerStrict(altitude, i + 1)

\* The index of the layer the loop stops at: the first l with
\* altitude <= l.maxAlt, else the last layer (altitude in altitude units).
RECURSIVE FindLayer(_, _)
FindLayer(altitude, i) ==
  IF i > Len(LayerMaxAlt) THEN i
  ELSE IF altitude <= LayerMaxAlt[i] * AltScale THEN i
  ELSE FindLayer(altitude, i + 1)

\* altitude in altitude units; the density is computed from the whole
\* metres of altInLayer.
getAtmosphericProperties(altitude) ==
  LET i == FindLayer(altitude, 1)
      prevAlt == IF i = 1 THEN 0 ELSE LayerMaxAlt[i - 1]
      altInLayer == altitude \div AltScale - prevAlt
      tab == LayerDensity[i]
      k == altInLayer \div 1000
      density ==
        IF k + 2 > Len(tab) THEN tab[Len(tab)]
        ELSE tab[k + 1] + ((tab[k + 2] - tab[k + 1]) * (altInLayer % 1000)) \div 1000
  IN  [density |-> Max(0, density), layer |-> LayerNames[i]]

\* altitude in m, result in 0.01 degree.
getGravityTurnAngle(altitude) ==
  IF altitude < 1000 THEN 0
  ELSE IF altitude < 10000 THEN ((altitude - 1000) * 45 * AngleScale) \div 9000
  ELSE IF altitude < 40000
    THEN 45 * AngleScale + ((altitude - 10000) * 25 * AngleScale) \div 30000
  ELSE Min(70 * AngleScale,
           45 * AngleScale + ((altitude - 10000) * 25 * AngleScale) \div 30000)

---------------------------------------------------------------------------
(* physicsEngine.ts: calculateNextState *)

\* Step 1, "Determine Mass": kg.
CurrentMass(s, cfg) ==
  IF s.activeStage = 1
    THEN cfg.stage1.dryMass + s.stage1Fuel \div FuelScale
         + cfg.stage2.dryMass + s.stage2Fuel \div FuelScale + cfg.payloadMass
    ELSE cfg.stage2.dryMass + s.stage2Fuel \div FuelScale + cfg.payloadMass

\* EARTH_MU / (r * r) with r = EARTH_RADIUS + altitude (m), in mm/s^2.
LocalGravity(altitude) ==
  LET r == (EARTH_RADIUS + altitude) \div 1000
  IN  ((EARTH_MU \div r) * 1000) \div r

\* 0.5 * airDensity * vTotal^2 in Pa (vTotal in m/s).
DynamicPressure(airDensity, vTotal) ==
  (((airDensity * vTotal) \div 100) * vTotal) \div 2000

\* Step 4, "Gravity": currentMass * localGravity in N.
ForceGravity(s, cfg) ==
  (CurrentMass(s, cfg) * LocalGravity(s.altitude \div AltScale)) \div 1000

\* Step 4, "Drag": the components of the drag force, opposing the motion.
Drag(s, cfg) ==
  LET vxM == s.velocityX \div VelScale
      vyM == s.velocity \div VelScale
      vTotal == Sqrt(vxM * vxM + vyM * vyM)
      airDensity == getAtmosphericProperties(s.altitude).density
      dynamicPressure == DynamicPressure(airDensity, vTotal)
      dragMagnitude ==
        (dynamicPressure * cfg.dragCoefficient * ROCKET_CROSS_SECTION_AREA) \div 1000
  IN  IF vTotal > 0
        THEN [x |-> -((dragMagnitude * ((vxM * 1000) \div vTotal)) \div 1000),
              y |-> -((dragMagnitude * ((vyM * 1000) \div vTotal)) \div 1000)]
        ELSE [x |-> 0, y |-> 0]

\* The turn without the bound on its rate.
NextThrustAngleSnap(phase, currentAngle, targetAngle) ==
  IF phase = "BURNING" THEN targetAngle ELSE currentAngle

\* Step 3: the thrust angle after the bounded turn toward the target.
NextThrustAngle(phase, currentAngle, targetAngle) ==
  IF phase = "BURNING"
    THEN currentAngle + Sign(targetAngle - currentAngle)
                        * Min(MaxTurnRate, Abs(targetAngle - currentAngle))
    ELSE currentAngle

\* Step 5 with the stage switch left out of the STAGING branch.
BurnLogicRestages(s, cfg) ==
  LET idle == [forceThrust |-> 0, s1Consumption |-> 0, s2Consumption |-> 0,
               newPhase |-> s.phase, newActiveStage |-> s.activeStage,
               newSeparationTime |-> s.separationTime,
               velocityAdjustment |-> 0]
  IN  IF s.phase = "BURNING" /\ s.stage1Fuel > 0
        THEN [idle EXCEPT !.forceThrust = cfg.stage1.thrust,
                          !.s1Consumption = cfg.stage1.burnRate]
      ELSE IF s.phase = "BURNING"
        THEN [idle EXCEPT !.newPhase = "STAGING",
                          !.newSeparationTime = s.time,
                          !.velocityAdjustment = SEPARATION_IMPULSE]
      ELSE IF s.phase = "STAGING" /\ s.time - s.separationTime > StagingDwellTicks
        THEN [idle EXCEPT !.newPhase = "BURNING"]
      ELSE idle

\* A burn that draws on the tanks of both stages.
BurnLogicBothTanks(s, cfg) ==
  [forceThrust |-> 0,
   s1Consumption |-> IF s.phase = "BURNING" THEN cfg.stage1.burnRate ELSE 0,
   s2Consumption |-> IF s.phase = "BURNING" THEN cfg.stage2.burnRate ELSE 0,
   newPhase |-> s.phase, newActiveStage |-> s.activeStage,
   newSeparationTime |-> s.separationTime, velocityAdjustment |-> 0]

\* Consumption of either stage whatever the phase.
BurnLogicAnyPhase(s, cfg) ==
  [forceThrust |-> 0,
   s1Consumption |-> IF s.activeStage = 1 THEN cfg.stage1.burnRate ELSE 0,
   s2Consumption |-> IF s.activeStage = 2 THEN cfg.stage2.burnRate ELSE 0,
   newPhase |-> s.phase, newActiveStage |-> s.activeStage,
   newSeparationTime |-> s.separationTime, velocityAdjustment |-> 0]

\* Step 5, "Thrust & Burn Logic": the thrust, the fuel drawn from each
\* stage, the phase, the active stage, the separation time and the
\* separation impulse this step decides on.
BurnLogic(s, cfg) ==
  LET idle == [forceThrust |-> 0, s1Consumption |-> 0, s2Consumption |-> 0,
               newPhase |-> s.phase, newActiveStage |-> s.activeStage,
               newSeparationTime |-> s.separationTime,
               velocityAdjustment |-> 0]
  IN  IF s.phase = "BURNING" THEN
        IF s.activeStage = 1 THEN
          IF s.stage1Fuel > 0
            THEN [idle EXCEPT !.forceThrust = cfg.stage1.thrust,
                              !.s1Consumption = cfg.stage1.burnRate]
            ELSE [idle EXCEPT !.newPhase = "STAGING",
                              !.newSeparationTime = s.time,
                              !.velocityAdjustment = SEPARATION_IMPULSE]
        ELSE IF s.activeStage = 2 THEN
          IF s.stage2Fuel > 0
            THEN [idle EXCEPT !.forceThrust = cfg.stage2.thrust,
                              !.s2Consumption = cfg.stage2.burnRate]
            ELSE [idle EXCEPT !.newPhase = "COASTING"]
        ELSE idle
      ELSE IF s.phase = "STAGING" THEN
        \* "separationTime && ...": null and 0 are both falsy.
        IF s.separationTime # Null /\ s.separationTime # 0
           /\ s.time - s.separationTime > StagingDwellTicks
          THEN [idle EXCEPT !.newPhase = "BURNING", !.newActiveStage = 2]
          ELSE idle
      ELSE idle

\* Ground contact that leaves the decision of the burn logic standing.
GlobalPhaseKeepsDecision(newPhase, newAltitude, newVelocity, time) ==
  IF newAltitude <= 0 /\ time >= GraceTicks /\ newPhase = "DESCENT"
    THEN IF Abs(newVelocity) > LandingSpeedLimit THEN "CRASHED" ELSE "LANDED"
  ELSE IF newVelocity < 0 /\ newPhase \notin {"DESCENT", "CRASHED", "LANDED"}
    THEN "DESCENT"
  ELSE newPhase

\* DESCENT that waits for the burn to end.
GlobalPhaseBurnsOn(newPhase, newAltitude, newVelocity, time) ==
  IF newAltitude <= 0 /\ time >= GraceTicks
    THEN IF Abs(newVelocity) > LandingSpeedLimit THEN "CRASHED" ELSE "LANDED"
  ELSE IF newVelocity < 0 /\ newPhase \notin {"BURNING", "STAGING", "DESCENT", "CRASHED", "LANDED"}
    THEN "DESCENT"
  ELSE newPhase

\* DESCENT that ends when the vehicle no longer falls.
GlobalPhaseDescentEnds(newPhase, newAltitude, newVelocity, time) ==
  IF newAltitude <= 0 /\ time >= GraceTicks
    THEN IF Abs(newVelocity) > LandingSpeedLimit THEN "CRASHED" ELSE "LANDED"
  ELSE IF newVelocity < 0 /\ newPhase \notin {"DESCENT", "CRASHED", "LANDED"}
    THEN "DESCENT"
  ELSE IF newVelocity >= 0 /\ newPhase = "DESCENT" THEN "COASTING"
  ELSE newPhase

\* Step 11, "Global Phase Checks".
GlobalPhase(newPhase, newAltitude, newVelocity, time) ==
  IF newAltitude <= 0 /\ time >= GraceTicks
    THEN IF Abs(newVelocity) > LandingSpeedLimit THEN "CRASHED" ELSE "LANDED"
  ELSE IF newVelocity < 0 /\ newPhase \notin {"DESCENT", "CRASHED", "LANDED"}
    THEN "DESCENT"
  ELSE newPhase

\* Step 8 without the floor.
UpdateFuelUnfloored(fuel, consumption) == fuel - consumption

\* Step 8, "Update Fuel".
UpdateFuel(fuel, consumption) == Max(0, fuel - consumption)

\* The returned value without the ground test.
GroundClampOff(finalAltitude, value) == value

\* "finalAltitude === 0 ? 0 : value" of the lines after step 11.
GroundClamp(finalAltitude, value) == IF finalAltitude = 0 THEN 0 ELSE value

\* "x || null" of the returned record.
OrNull(x) == IF x = 0 THEN Null ELSE x

\* Steps 3 to 6 and 11: the values calculateNextState computes before it
\* clamps at the ground.
\* The increment without the time step.
DeltaVPerSecond(forceThrust, currentMass) ==
  (VelScale * forceThrust) \div currentMass

\* "Delta-V calculation (thrust * dt / mass)", in velocity units.
DeltaVThisStep(forceThrust, currentMass) ==
  ((VelScale \div TicksPerSecond) * forceThrust) \div currentMass

Integration(currentState, cfg) ==
  LET altitude == currentState.altitude
      altitudeM == altitude \div AltScale
      velocityX == currentState.velocityX
      velocityY == currentState.velocity
      currentMass == CurrentMass(currentState, cfg)
      targetAngle == getGravityTurnAngle(altitudeM)
      thrustAngle ==
        NextThrustAngle(currentState.phase, currentState.thrustAngle, targetAngle)
      forceGravity == ForceGravity(currentState, cfg)
      drag == Drag(currentState, cfg)
      dragX == drag.x
      dragY == drag.y
      burn == BurnLogic(currentState, cfg)
      forceThrust == burn.forceThrust
      deltaVThisStep ==
        IF forceThrust > 0 THEN DeltaVThisStep(forceThrust, currentMass) ELSE 0
      thrustVertical == ((forceThrust \div 100) * Cos(thrustAngle)) \div 100
      thrustHorizontal == ((forceThrust \div 100) * Sin(thrustAngle)) \div 100
      forceNetVertical == thrustVertical + dragY - forceGravity
      forceNetHorizontal == thrustHorizontal + dragX
      \* acceleration * DT, in velocity units
      dvVertical == ((VelScale \div TicksPerSecond) * forceNetVertical) \div currentMass
      dvHorizontal == ((VelScale \div TicksPerSecond) * forceNetHorizontal) \div currentMass
      \* acceleration in 0.1 m/s^2
      accelerationVertical == (10 * forceNetVertical) \div currentMass
      accelerationHorizontal == (10 * forceNetHorizontal) \div currentMass
      acceleration == Sqrt(accelerationVertical * accelerationVertical
                           + accelerationHorizontal * accelerationHorizontal)
      newVelocityY == velocityY + dvVertical + burn.velocityAdjustment
      newVelocityX == velocityX + dvHorizontal
      newAltitude == altitude + newVelocityY
  IN  [ thrustAngle |-> thrustAngle,
        burn |-> burn,
        deltaVThisStep |-> deltaVThisStep,
        dvVertical |-> dvVertical,
        dvHorizontal |-> dvHorizontal,
        acceleration |-> acceleration,
        newVelocityY |-> newVelocityY,
        newVelocityX |-> newVelocityX,
        newAltitude |-> newAltitude,
        newDownrange |-> currentState.downrangeDistance + newVelocityX \div 10,
        newPhase |-> GlobalPhase(burn.newPhase, newAltitude, newVelocityY,
                                 currentState.time) ]

\* Steps 8 to 12 and the object calculateNextState returns, from what
\* steps 1 to 7 and 11 have computed.
Updated(currentState, computed) ==
  LET burn == computed.burn
      thrustAngle == computed.thrustAngle
      deltaVThisStep == computed.deltaVThisStep
      acceleration == computed.acceleration
      newVelocityY == computed.newVelocityY
      newVelocityX == computed.newVelocityX
      newAltitude == computed.newAltitude
      newDownrange == computed.newDownrange
      newS1Fuel == UpdateFuel(currentState.stage1Fuel, burn.s1Consumption)
      newS2Fuel == UpdateFuel(currentState.stage2Fuel, burn.s2Consumption)
      newPhase == computed.newPhase
      finalAltitude == Max(0, newAltitude)
      finalVelocityY == GroundClamp(finalAltitude, newVelocityY)
      finalVelocityX == GroundClamp(finalAltitude, newVelocityX)
      finalVelocity == GroundClamp(finalAltitude, finalVelocityY)
      finalAcceleration == GroundClamp(finalAltitude, acceleration)
  IN  [ time |-> currentState.time + 1,
        altitude |-> finalAltitude,
        velocity |-> finalVelocity,
        acceleration |-> finalAcceleration,
        velocityX |-> finalVelocityX,
        velocityY |-> finalVelocityY,
        stage1Fuel |-> newS1Fuel,
        stage2Fuel |-> newS2Fuel,
        activeStage |-> burn.newActiveStage,
        separationTime |-> burn.newSeparationTime,
        phase |-> newPhase,
        maxAltitude |-> Max(currentState.maxAltitude, finalAltitude),
        maxVelocity |-> Max(currentState.maxVelocity, finalVelocity),
        deltaVExpended |-> currentState.deltaVExpended + deltaVThisStep,
        thrustAngle |-> thrustAngle,
        downrangeDistance |-> newDownrange,
        landingLegsDeployed |-> currentState.landingLegsDeployed,
        gridFinsDeployed |-> currentState.gridFinsDeployed,
        landingBurnStartAltitude |-> OrNull(currentState.landingBurnStartAltitude),
        landingTargetX |-> currentState.landingTargetX,
        landingAccuracy |-> currentState.landingAccuracy,
        recoveryPercentage |-> currentState.recoveryPercentage,
        boostbackBurnComplete |-> currentState.boostbackBurnComplete,
        reentryBurnComplete |-> currentState.reentryBurnComplete ]

\* The integration is computed once and its results are then used.
calculateNextState(currentState, cfg) ==
  CHOOSE nextState \in { Updated(currentState, computed) :
                           computed \in {Integration(currentState, cfg)} } : TRUE

---------------------------------------------------------------------------
(* landingGuidance.ts *)

\* floor(a * b / c) for a, b >= 0 and c > 0, without forming a * b.
MulDiv(a, b, c) == (a \div c) * b + ((a % c) * b) \div c

\* The value that stands for the result NaN.
NaN == -2147483647

\* The value that stands for the result Infinity.
Infinity == 2147483647

\* thrust / mass - GRAVITY in mm/s^2, the mass given in half kilograms;
\* 0 only when the difference is exactly 0.
NetAccel(thrust, mass2) ==
  LET accel == MulDiv(thrust, 2000, mass2) - GRAVITY
      exact == ((thrust % mass2) * 2000) % mass2 = 0
  IN  IF accel = 0 /\ ~exact THEN 1 ELSE accel

\* The longest burn time the model represents, in ms.
BurnTimeCeiling == 1000000000

\* velocity / accel in ms (velocity in velocity units, accel # 0 in mm/s^2).
BurnTime(velocity, accel) ==
  LET a == Abs(accel)
      t == IF (2 * velocity) \div a >= BurnTimeCeiling \div 1000
             THEN BurnTimeCeiling
           ELSE IF a >= 2000000 THEN (2 * velocity) \div (a \div 1000)
           ELSE MulDiv(2 * velocity, 1000, a)
  IN  IF accel > 0 THEN t ELSE -t

\* estimatedBurnTime * burnRate in kg (time in ms, either sign).
FuelConsumed(time, burnRate) ==
  IF time >= 0 THEN MulDiv(time, burnRate, 1000)
  ELSE -MulDiv(-time, burnRate, 1000)

\* The "for (let i = 0; i < 3; i++)" loop: the average mass (in half
\* kilograms) it leaves.
RECURSIVE RefineMass(_, _, _, _, _, _)
RefineMass(i, estimatedBurnTime, velocity, mass, thrust, burnRate) ==
  LET finalMass == Max(1, mass - FuelConsumed(estimatedBurnTime, burnRate))
      avgMass2 == mass + finalMass
      avgAccel == NetAccel(thrust, avgMass2)
  IN  IF avgAccel <= 0 \/ i = 2 THEN avgMass2
      ELSE RefineMass(i + 1, BurnTime(velocity, avgAccel),
                      velocity, mass, thrust, burnRate)

\* The largest altitude the model represents; a burn altitude above it is
\* reported as this.
AltitudeCeiling == 2000000000

\* velocity >= 0 in velocity units, mass >= 0 in kg, thrust >= 0 in N,
\* burnRate in kg/s; the result in altitude units, or NaN.  With thrust /
\* mass equal to GRAVITY the first estimatedBurnTime is velocity / 0:
\* Infinity for velocity > 0, which the loop turns into a final mass of 1,
\* and NaN for velocity = 0, which every later operation and comparison
\* passes on.  With mass = 0 the quotient thrust / mass is Infinity for
\* thrust > 0, so that the first estimatedBurnTime is 0 and, without the
\* loop, burnAlt is velocity^2 / Infinity = 0; and it is NaN for thrust = 0.
calculateSuicideBurnAltitude(velocity, mass, thrust, burnRate) ==
  LET accel0 == IF mass = 0 THEN Infinity ELSE NetAccel(thrust, 2 * mass)
      isNaN == \/ mass = 0 /\ thrust = 0
               \/ accel0 = 0 /\ velocity = 0 /\ burnRate > 0
      avgMass2 ==
        IF burnRate > 0
          THEN RefineMass(0, IF accel0 = 0 THEN BurnTimeCeiling
                             ELSE IF mass = 0 THEN 0
                             ELSE BurnTime(velocity, accel0),
                          velocity, mass, thrust, burnRate)
          ELSE 2 * mass
      netAccel == IF avgMass2 = 0 THEN Infinity ELSE NetAccel(thrust, avgMass2)
      \* v^2 / (2 * netAccel) in m: v in dm/s, netAccel in mm/s^2
      vDm == velocity \div (VelScale \div 10)
      vSquared == Min(vDm, 46340) * Min(vDm, 46340)
      ceilingM == AltitudeCeiling \div AltScale
      burnAlt == IF vSquared \div netAccel >= ceilingM \div 5 THEN ceilingM
                 ELSE MulDiv(vSquared, 5, netAccel)
  IN  IF isNaN THEN NaN
      ELSE IF netAccel <= 0 THEN 0
      ELSE IF burnAlt + 100 >= ceilingM THEN AltitudeCeiling
      ELSE (burnAlt + 100) * AltScale

\* 0.9 * GRAVITY, in mm/s^2.
EffectiveGravity == (GRAVITY * 9) \div 10

\* The ascent test without the vehicle at rest.
TimeToImpactFromRest(altitude, velocity) ==
  IF velocity > 0 THEN Infinity
  ELSE MulDiv(Sqrt(MulDiv(altitude \div (AltScale \div 10),
                          2 * EffectiveGravity, 100)),
              100000, EffectiveGravity)

\* altitude >= 0 in altitude units, velocity in velocity units; the
\* result in ms, or Infinity.  With b = -velocity and c = altitude the
\* code returns (-b + sqrt(b * b + 4 * a * c)) / (2 * a), a being half the
\* effective gravity; the model computes it in dm and dm/s.
calculateTimeToImpact(altitude, velocity) ==
  IF velocity >= 0 THEN Infinity
  ELSE LET b == (-velocity) \div (VelScale \div 10)
           c == altitude \div (AltScale \div 10)
           discriminant == b * b + MulDiv(c, 2 * EffectiveGravity, 100)
           t == MulDiv(Sqrt(discriminant) - b, 100000, EffectiveGravity)
       IN  IF discriminant < 0 THEN 0 ELSE Max(0, t)

calculateBoostbackGuidance(s) ==
  /\ s.activeStage = 1
  /\ s.altitude > 60000 * AltScale
  /\ s.altitude < 80000 * AltScale
  /\ s.phase = "COASTING"
  /\ ~s.boostbackBurnComplete

\* The re-entry trigger without the wait for the boostback burn.
ReentryGuidanceBeforeBoostback(s) ==
  /\ s.activeStage = 1
  /\ s.altitude < 75000 * AltScale
  /\ s.altitude > 60000 * AltScale
  /\ s.velocity < -500 * VelScale
  /\ ~s.reentryBurnComplete

calculateReentryGuidance(s) ==
  /\ s.activeStage = 1
  /\ s.altitude < 75000 * AltScale
  /\ s.altitude > 60000 * AltScale
  /\ s.velocity < -500 * VelScale
  /\ s.boostbackBurnComplete
  /\ ~s.reentryBurnComplete

\* "Math.min(1.0, Math.max(0.1, output))" without the upper limit.
LandingThrottleFloorOnly(output) == Max(ThrottleScale \div 10, output)

\* Math.min(1.0, Math.max(0.1, output)), in thousandths.
LandingThrottle(output) ==
  Min(ThrottleScale, Max(ThrottleScale \div 10, output))

\* "Target throttle based on phase", in thousandths, for a stage-1 thrust
\* > 0.  In phase LANDING targetV is -max(2, altitude / 10) m/s, Kp is 0.1
\* per m/s of error and Kd is 0.05 per m/s^2 of acceleration.
TargetThrottle(s, cfg) ==
  IF s.phase = "BOOSTBACK" THEN ThrottleScale
  ELSE IF s.phase = "RE-ENTRY" THEN (7 * ThrottleScale) \div 10
  ELSE IF s.phase = "LANDING"
    THEN LET stage1Mass == cfg.stage1.dryMass + s.stage1Fuel \div FuelScale
             targetV == -Max(2 * VelScale,
                             s.altitude \div ((10 * AltScale) \div VelScale))
             error == targetV - s.velocity
             hoverThrottle == (stage1Mass * GRAVITY) \div cfg.stage1.thrust
             output == hoverThrottle + (error * (ThrottleScale \div 10)) \div VelScale
                       - (s.acceleration * ThrottleScale) \div 200
         IN  LandingThrottle(output)
  ELSE 0

computeLandingGuidance(s, cfg, landingTargetX) ==
  LET stage1Mass == cfg.stage1.dryMass + s.stage1Fuel \div FuelScale
      suicideBurnAlt ==
        calculateSuicideBurnAltitude(Abs(s.velocity), stage1Mass,
                                     cfg.stage1.thrust, cfg.stage1.burnRate)
  IN  [ shouldStartBoostback |-> calculateBoostbackGuidance(s),
        shouldStartReentry |-> calculateReentryGuidance(s),
        shouldStartLanding |->
          /\ s.activeStage = 1
          /\ suicideBurnAlt # NaN
          /\ s.altitude <= suicideBurnAlt
          /\ s.altitude > 100 * AltScale
          /\ s.velocity < 0
          /\ s.reentryBurnComplete,
        shouldDeployLegs |->
          /\ s.altitude < 1000 * AltScale
          /\ s.altitude > 0
          /\ ~s.landingLegsDeployed,
        shouldDeployGridFins |->
          /\ s.altitude < 70000 * AltScale
          /\ s.velocity < 0
          /\ ~s.gridFinsDeployed
          /\ s.boostbackBurnComplete,
        timeToImpact |-> calculateTimeToImpact(s.altitude, s.velocity),
        landingAccuracy |-> Abs(s.downrangeDistance - landingTargetX),
        targetThrottle |-> TargetThrottle(s, cfg) ]

\* The velocity tiers without the last one.
RecoveryPercentageFourTiers(landingVelocity, landingAccuracy, tiltAngle) ==
  IF Abs(landingVelocity) < 10 * VelScale THEN 10000 ELSE 3000

\* The result in hundredths of a percent; landingVelocity in velocity
\* units, landingAccuracy in mm, tiltAngle in 0.01 degree.
calculateRecoveryPercentage(landingVelocity, landingAccuracy, tiltAngle) ==
  LET velMagnitude == Abs(landingVelocity)
      byVelocity == IF velMagnitude < 2 * VelScale THEN 10000
                    ELSE IF velMagnitude < 5 * VelScale THEN 9000
                    ELSE IF velMagnitude < 10 * VelScale THEN 7000
                    ELSE IF velMagnitude < 20 * VelScale THEN 3000
                    ELSE 0
      byAccuracy == IF landingAccuracy > 100000 THEN (byVelocity * 70) \div 100
                    ELSE IF landingAccuracy > 50000 THEN (byVelocity * 85) \div 100
                    ELSE byVelocity
      byTilt == IF Abs(tiltAngle) > 10 * AngleScale THEN (byAccuracy * 50) \div 100
                ELSE IF Abs(tiltAngle) > 5 * AngleScale THEN (byAccuracy * 80) \div 100
                ELSE byAccuracy
  IN  Max(0, Min(10000, byTilt))

---------------------------------------------------------------------------
(* Rocket configurations *)

Stage(fuelMass, dryMass, thrust, burnRate) ==
  [fuelMass |-> fuelMass, dryMass |-> dryMass,
   thrust |-> thrust, burnRate |-> burnRate]

\* RocketConfig: masses in kg, thrust in N, burnRate in kg/s,
\* dragCoefficient in hundredths.
Config(stage1, stage2, dragCoefficient, payloadMass) ==
  [stage1 |-> stage1, stage2 |-> stage2,
   dragCoefficient |-> dragCoefficient, payloadMass |-> payloadMass]

DEFAULT_CONFIG ==
  Config(Stage(8000, 2000, 250000, 80), Stage(3000, 800, 60000, 20), 75, 500)

\* A small vehicle whose two burns last 2.5 s each.
SoundingConfig ==
  Config(Stage(500, 100, 100000, 200), Stage(500, 100, 10000, 200), 75, 0)

\* DEFAULT_CONFIG with the stage-1 thrust slider at its lower end: the
\* thrust is less than the weight of the 14300 kg on the pad.
LowThrustConfig ==
  Config(Stage(8000, 2000, 125000, 80), Stage(3000, 800, 60000, 20), 75, 500)

\* 400000 N under 40750 kg: more than the weight by GRAVITY
\* (399757 N), less than the weight by EARTH_MU / EARTH_RADIUS^2.
MarginalConfig ==
  Config(Stage(20000, 5000, 400000, 200), Stage(5000, 1950, 10000, 5), 75, 8800)

\* 120000 N under 10700 kg, a stage-1 burn of 2000 s.
SlowBurnConfig ==
  Config(Stage(10000, 100, 120000, 5), Stage(500, 100, 10000, 5), 75, 0)

\* Both tanks empty; 25000 N under 3300 kg.
EmptyConfig ==
  Config(Stage(0, 2000, 25000, 80), Stage(0, 800, 60000, 20), 75, 500)

\* A stage 1 holding one tick's worth of fuel, its thrust less than the
\* weight.
OneTickConfig ==
  Config(Stage(4, 2000, 50000, 80), Stage(3000, 800, 60000, 20), 75, 500)

InitialMass(cfg) ==
  cfg.stage1.dryMass + cfg.stage1.fuelMass + cfg.stage2.dryMass
  + cfg.stage2.fuelMass + cfg.payloadMass

\* AssemblyView's "twr > 1": thrust / (totalMass * 9.81) > 1.
TwrAbove(cfg, percent) ==
  cfg.stage1.thrust * 100 > MulDiv(InitialMass(cfg) * percent, GRAVITY \div 10, 100)

---------------------------------------------------------------------------
(* App.tsx *)

\* No function of landingGuidance.ts has been called on its own.
NoGuidanceCall == [fn |-> "none", args |-> <<>>, result |-> Null]

\* No call of predictFlightPath is in progress.
NoCall ==
  [pc |-> "idle", i |-> 0, maxSteps |-> 0, tempRef |-> "none",
   points |-> <<>>, temp |-> Null]

INITIAL_STATE ==
  [ time |-> 0, altitude |-> 0, velocity |-> 0, acceleration |-> 0,
    velocityX |-> 0, velocityY |-> 0,
    stage1Fuel |-> DEFAULT_CONFIG.stage1.fuelMass * FuelScale,
    stage2Fuel |-> DEFAULT_CONFIG.stage2.fuelMass * FuelScale,
    activeStage |-> 1, separationTime |-> Null, phase |-> "PRE_LAUNCH",
    maxAltitude |-> 0, maxVelocity |-> 0, deltaVExpended |-> 0,
    thrustAngle |-> 0, downrangeDistance |-> 0,
    landingLegsDeployed |-> FALSE, gridFinsDeployed |-> FALSE,
    landingBurnStartAltitude |-> Null, landingTargetX |-> 0,
    landingAccuracy |-> 0, recoveryPercentage |-> 0,
    boostbackBurnComplete |-> FALSE, reentryBurnComplete |-> FALSE ]

\* A reset that forgets the configuration.
ResetStateDefaultTanks(cfg) == INITIAL_STATE

\* The state handleReset sets: INITIAL_STATE with the tanks of cfg.
ResetState(cfg) ==
  [INITIAL_STATE EXCEPT !.stage1Fuel = cfg.stage1.fuelMass * FuelScale,
                        !.stage2Fuel = cfg.stage2.fuelMass * FuelScale]

\* tick, "Landing guidance system": what the block makes of nextState.
ApplyGuidance(nextState, cfg) ==
  LET guidance == computeLandingGuidance(nextState, cfg, nextState.landingTargetX)
      phase1 ==
        IF guidance.shouldStartBoostback /\ ~nextState.boostbackBurnComplete
          THEN "BOOSTBACK"
        ELSE IF guidance.shouldStartReentry /\ ~nextState.reentryBurnComplete
          THEN "RE-ENTRY"
        ELSE IF guidance.shouldStartLanding THEN "LANDING"
        ELSE nextState.phase
      startsLanding ==
        /\ ~(guidance.shouldStartBoostback /\ ~nextState.boostbackBurnComplete)
        /\ ~(guidance.shouldStartReentry /\ ~nextState.reentryBurnComplete)
        /\ guidance.shouldStartLanding
      boostbackDone ==
        /\ phase1 = "BOOSTBACK"
        /\ nextState.time - (IF nextState.separationTime = Null THEN 0
                             ELSE nextState.separationTime)
             > 20 * TicksPerSecond
      phase2 == IF boostbackDone THEN "COASTING" ELSE phase1
      reentryDone ==
        phase2 = "RE-ENTRY" /\ nextState.altitude < 50000 * AltScale
  IN  [nextState EXCEPT
        !.phase = IF reentryDone THEN "DESCENT" ELSE phase2,
        !.landingBurnStartAltitude =
          IF startsLanding /\ @ = Null THEN nextState.altitude ELSE @,
        !.gridFinsDeployed = @ \/ guidance.shouldDeployGridFins,
        !.landingLegsDeployed = @ \/ guidance.shouldDeployLegs,
        !.landingAccuracy = guidance.landingAccuracy,
        !.boostbackBurnComplete = @ \/ boostbackDone,
        !.reentryBurnComplete = @ \/ reentryDone]

\* A tick without the branch for LANDED and CRASHED.
TickStateIntegratesOn(prevState, cfg) ==
  IF prevState.phase = "PRE_LAUNCH" THEN
    [prevState EXCEPT !.phase = "BURNING"]
  ELSE
    LET nextState == calculateNextState(prevState, cfg)
    IN  IF nextState.activeStage = 1 /\ nextState.altitude > 0
          THEN ApplyGuidance(nextState, cfg)
          ELSE nextState

\* tick: the state setState's updater returns for prevState.
TickState(prevState, cfg) ==
  IF prevState.phase \in {"LANDED", "CRASHED"} THEN
    IF prevState.phase = "LANDED" /\ prevState.recoveryPercentage = 0
      THEN [prevState EXCEPT !.recoveryPercentage =
              calculateRecoveryPercentage(prevState.velocity,
                                          prevState.landingAccuracy,
                                          prevState.thrustAngle)]
      ELSE prevState
  ELSE IF prevState.phase = "PRE_LAUNCH" THEN
    [prevState EXCEPT !.phase = "BURNING"]
  ELSE
    LET nextState == calculateNextState(prevState, cfg)
    IN  IF nextState.activeStage = 1 /\ nextState.altitude > 0
          THEN ApplyGuidance(nextState, cfg)
          ELSE nextState

\* tick refreshes the prediction on every tenth integrating frame.
PredictionPeriod == 10

\* The samples predictFlightPath(startState, cfg) returns, named by the
\* call's arguments; the call itself is PredictCall .. PredictReturn.
PredictionFor(startState, cfg) == [startState |-> startState, config |-> cfg]

\* The animation frame that calls tick (DT has elapsed while isRunning).
Tick ==
  /\ isRunning
  /\ currentView = "simulation"
  /\ state' = TickState(state, config)
  /\ isRunning' = (state.phase \notin {"LANDED", "CRASHED"})
  /\ IF state.phase \in {"LANDED", "CRASHED", "PRE_LAUNCH"}
       THEN UNCHANGED <<frameCount, prediction>>
       ELSE /\ frameCount' = (frameCount + 1) % PredictionPeriod
            /\ prediction' = IF frameCount' = 0
                               THEN PredictionFor(state', config)
                               ELSE prediction
  /\ UNCHANGED <<config, currentView, predictor, call>>

---------------------------------------------------------------------------
(* The driver alone: a mission confirmed for each configuration, then     *)
(* ticks until touchdown.                                                  *)

DriverConfigs ==
  { DEFAULT_CONFIG, SoundingConfig, LowThrustConfig, MarginalConfig,
    SlowBurnConfig, EmptyConfig, OneTickConfig }

DriverInit ==
  /\ config \in DriverConfigs
  /\ state = ResetState(config)
  /\ isRunning = TRUE
  /\ currentView = "simulation"
  /\ prediction = <<>>
  /\ predictor = NoCall
  /\ call = NoGuidanceCall
  /\ frameCount = 0

DriverNext == Tick

DriverSpec == DriverInit /\ [][DriverNext]_vars

---------------------------------------------------------------------------
(* The App: the three views, their buttons, and the animation frames.     *)

\* AssemblyView's isFlyable, which enables the launch button: twr > 1.1.
isFlyable(cfg) == TwrAbove(cfg, 110)

\* DEFAULT_CONFIG after the stage-1 fuel slider has been brought down to
\* 4 kg and the payload slider up to 7000 kg: a hop of a few seconds.
ShortHopConfig ==
  Config(Stage(4, 2000, 250000, 80), Stage(3000, 800, 60000, 20), 75, 7000)

\* The same with the payload slider at its upper end.
HeavyHopConfig ==
  Config(Stage(4, 2000, 250000, 80), Stage(3000, 800, 60000, 20), 75, 10000)

\* ROCKET_PRESETS: 'Falcon 9'.
Falcon9Preset ==
  Config(Stage(25000, 4000, 760000, 150), Stage(8000, 1500, 95000, 25), 75, 1000)

\* The configurations AssemblyView's sliders and presets hand to
\* onConfigChange here.
AppConfigs ==
  { ShortHopConfig, HeavyHopConfig, LowThrustConfig, Falcon9Preset }

\* The ticks of one run that are followed: 10 s of flight, in which the
\* hops end.
MaxAppTime == 200

\* Mounting: the hooks' initial values, then the effect "Init prediction
\* on load".
Init ==
  /\ currentView = "assembly"
  /\ config = DEFAULT_CONFIG
  /\ state = INITIAL_STATE
  /\ isRunning = FALSE
  /\ prediction = PredictionFor(INITIAL_STATE, DEFAULT_CONFIG)
  /\ predictor = NoCall
  /\ call = NoGuidanceCall
  /\ frameCount = 0

\* AssemblyView's sliders and presets: onConfigChange(newConfig).
handleConfigChange ==
  /\ currentView = "assembly"
  /\ \E newConfig \in AppConfigs :
       /\ config' = newConfig
       /\ IF state.phase = "PRE_LAUNCH"
            THEN /\ state' = [state EXCEPT
                        !.stage1Fuel = newConfig.stage1.fuelMass * FuelScale,
                        !.stage2Fuel = newConfig.stage2.fuelMass * FuelScale]
                 /\ prediction' = PredictionFor(ResetState(newConfig), newConfig)
            ELSE UNCHANGED <<state, prediction>>
  /\ UNCHANGED <<isRunning, currentView, predictor, call, frameCount>>

\* AssemblyView's launch button, disabled unless isFlyable.
handleLaunchRequest ==
  /\ currentView = "assembly"
  /\ isFlyable(config)
  /\ currentView' = "mission-select"
  /\ UNCHANGED <<state, config, isRunning, prediction, predictor, call,
                 frameCount>>

\* MissionSelect's onBack.
handleBackFromMissionSelect ==
  /\ currentView = "mission-select"
  /\ currentView' = "assembly"
  /\ UNCHANGED <<state, config, isRunning, prediction, predictor, call,
                 frameCount>>

\* MissionSelect's onContinue.
handleMissionConfirm ==
  /\ currentView = "mission-select"
  /\ currentView' = "simulation"
  /\ isRunning' = TRUE
  /\ UNCHANGED <<state, config, prediction, predictor, call, frameCount>>

\* What handleReset sets.
Reset ==
  /\ isRunning' = FALSE
  /\ state' = ResetState(config)
  /\ prediction' = <<>>

\* The simulation view's reset button.
handleReset ==
  /\ currentView = "simulation"
  /\ Reset
  /\ UNCHANGED <<config, currentView, predictor, call, frameCount>>

\* The simulation view's VAB button.
handleBackToAssembly ==
  /\ currentView = "simulation"
  /\ currentView' = "assembly"
  /\ Reset
  /\ UNCHANGED <<config, predictor, call, frameCount>>

\* The simulation view's missions button.
handleBackToMissions ==
  /\ currentView = "simulation"
  /\ currentView' = "mission-select"
  /\ Reset
  /\ UNCHANGED <<config, predictor, call, frameCount>>

\* The button shown while the run is stopped before launch or after
\* touchdown (RE-LAUNCH): setIsRunning(true).
Play ==
  /\ currentView = "simulation"
  /\ ~isRunning
  /\ state.phase \in {"PRE_LAUNCH", "LANDED", "CRASHED"}
  /\ isRunning' = TRUE
  /\ UNCHANGED <<state, config, currentView, prediction, predictor, call,
                 frameCount>>

\* The button shown otherwise (PAUSE / RESUME): setIsRunning(!isRunning).
PauseResume ==
  /\ currentView = "simulation"
  /\ ~(~isRunning /\ state.phase \in {"PRE_LAUNCH", "LANDED", "CRASHED"})
  /\ isRunning' = ~isRunning
  /\ UNCHANGED <<state, config, currentView, prediction, predictor, call,
                 frameCount>>

Next ==
  \/ handleConfigChange
  \/ handleLaunchRequest
  \/ handleBackFromMissionSelect
  \/ handleMissionConfirm
  \/ handleReset
  \/ handleBackToAssembly
  \/ handleBackToMissions
  \/ Play
  \/ PauseResume
  \/ state.time < MaxAppTime /\ Tick

Spec == Init /\ [][Next]_vars

---------------------------------------------------------------------------
(* The simulation view alone: the driver's runs with the buttons that     *)
(* stop, resume and reset them.                                           *)

\* The configurations whose runs end within a minute of flight.
SimulationConfigs ==
  { SoundingConfig, LowThrustConfig, EmptyConfig, OneTickConfig }

SimulationInit ==
  /\ config \in SimulationConfigs
  /\ state = ResetState(config)
  /\ isRunning = TRUE
  /\ currentView = "simulation"
  /\ prediction = <<>>
  /\ predictor = NoCall
  /\ call = NoGuidanceCall
  /\ frameCount = 0

SimulationNext ==
  \/ Tick
  \/ Play
  \/ PauseResume
  \/ handleReset

SimulationSpec == SimulationInit /\ [][SimulationNext]_vars

---------------------------------------------------------------------------
(* The integrator alone: calculateNextState applied again and again to a  *)
(* state drawn from bounded sets of field values.                         *)

Phases ==
  { "PRE_LAUNCH", "BURNING", "STAGING", "COASTING", "BOOSTBACK", "RE-ENTRY",
    "LANDING", "DESCENT", "LANDED", "CRASHED" }

MaxStepTime == 47

StepConfigs == { DEFAULT_CONFIG }
StepTimes == { 0, GraceTicks - 2, MaxStepTime - 3 }
StepAltitudes == { 0, AltScale \div 2, 20 * AltScale, 1500 * AltScale }
StepVelocities == { -30 * VelScale, 0, 40 * VelScale }
StepVelocitiesX == { 0, 10 * VelScale }
StepStage1Fuels == { 0, 50, 8000 * FuelScale }
StepStage2Fuels == { 0, 10 }
\* None, the falsy 0, and a tick for which the accumulated time is more
\* than 2.0 above it 41 ticks later and not 40 ticks later.
StepSeparationTimes == { Null, 0, 4 }

\* What the program's states have in common: at rest on the ground,
\* PRE_LAUNCH only at time 0 on the pad, LANDED and CRASHED only on the
\* ground and after the grace period, stage 1 active while STAGING.
Plausible(s) ==
  /\ s.altitude = 0 => s.velocity = 0 /\ s.velocityX = 0
  /\ s.phase \in {"LANDED", "CRASHED"} => s.altitude = 0 /\ s.time > GraceTicks
  /\ s.phase = "PRE_LAUNCH" <=> s.time = 0
  /\ s.phase = "PRE_LAUNCH" =>
       s.altitude = 0 /\ s.activeStage = 1 /\ s.separationTime = Null
  /\ s.phase = "STAGING" => s.activeStage = 1

StepInit ==
  /\ config \in StepConfigs
  /\ \E phase \in Phases, time \in StepTimes, altitude \in StepAltitudes,
        velocity \in StepVelocities, velocityX \in StepVelocitiesX,
        stage1Fuel \in StepStage1Fuels, stage2Fuel \in StepStage2Fuels,
        activeStage \in {1, 2}, separationTime \in StepSeparationTimes :
       /\ state = [INITIAL_STATE EXCEPT
                     !.phase = phase, !.time = time, !.altitude = altitude,
                     !.velocity = velocity, !.velocityY = velocity,
                     !.velocityX = velocityX, !.stage1Fuel = stage1Fuel,
                     !.stage2Fuel = stage2Fuel, !.activeStage = activeStage,
                     !.separationTime = separationTime,
                     !.maxAltitude = altitude, !.maxVelocity = Max(0, velocity)]
       /\ Plausible(state)
  /\ isRunning = FALSE
  /\ currentView = "simulation"
  /\ prediction = <<>>
  /\ predictor = NoCall
  /\ call = NoGuidanceCall
  /\ frameCount = 0

Step ==
  /\ state.time < MaxStepTime
  /\ state' = calculateNextState(state, config)
  /\ UNCHANGED <<config, isRunning, currentView, prediction, predictor, call, frameCount>>

StepNext == Step

StepSpec == StepInit /\ [][StepNext]_vars

---------------------------------------------------------------------------
(* The updater of tick alone: applied again and again to a state drawn    *)
(* from bounded sets of field values, the states of a stage-1 recovery    *)
(* among them.                                                            *)

MaxTickTime == 410

TickConfigs == { DEFAULT_CONFIG }
\* 20 s after a separation at time 0 or 0.5 s are 400 and 410 ticks.
TickTimes == { 0, MaxTickTime - 15, MaxTickTime - 8 }
TickSeparationTimes == { Null, 10 }
TickAltitudes ==
  { 0, 150 * AltScale, 40000 * AltScale, 65000 * AltScale, 77000 * AltScale }
TickVelocities == { -600 * VelScale, -50 * VelScale, 0, 40 * VelScale }
TickStage1Fuels == { 0, 8000 * FuelScale }

TickInit ==
  /\ config \in TickConfigs
  /\ \E phase \in Phases, time \in TickTimes, altitude \in TickAltitudes,
        velocity \in TickVelocities, stage1Fuel \in TickStage1Fuels,
        activeStage \in {1, 2}, separationTime \in TickSeparationTimes,
        boostbackBurnComplete \in BOOLEAN, reentryBurnComplete \in BOOLEAN :
       /\ state = [INITIAL_STATE EXCEPT
                     !.phase = phase, !.time = time, !.altitude = altitude,
                     !.velocity = velocity, !.velocityY = velocity,
                     !.stage1Fuel = stage1Fuel, !.activeStage = activeStage,
                     !.separationTime = separationTime,
                     !.maxAltitude = altitude, !.maxVelocity = Max(0, velocity),
                     !.boostbackBurnComplete = boostbackBurnComplete,
                     !.reentryBurnComplete = reentryBurnComplete]
       /\ Plausible(state)
  /\ isRunning = TRUE
  /\ currentView = "simulation"
  /\ prediction = <<>>
  /\ predictor = NoCall
  /\ call = NoGuidanceCall
  /\ frameCount = 0

TickNext == state.time < MaxTickTime /\ Tick

TickSpec == TickInit /\ [][TickNext]_vars

---------------------------------------------------------------------------
(* Fuel *)

\* What one step may do to a stage's fuel: draw burnRate * DT from it,
\* floored at 0, if the stage burns, and nothing otherwise.
FuelStep(before, after, burns, burnRate) ==
  /\ after <= before
  /\ after < before => burns
  /\ burns => after = Max(0, before - burnRate)
  /\ ~burns => after = before

\* C1: across every calculateNextState step neither stage's fuel increases;
\* a stage's fuel decreases, by burnRate * DT floored at 0, only when the
\* pre-step phase is BURNING and the stage is the active one with fuel
\* left; a step from any other phase leaves both fuels as they were.
C1_FuelOnlyBurns ==
  [][ /\ FuelStep(state.stage1Fuel, state'.stage1Fuel,
                  state.phase = "BURNING" /\ state.activeStage = 1
                    /\ state.stage1Fuel > 0,
                  config.stage1.burnRate)
      /\ FuelStep(state.stage2Fuel, state'.stage2Fuel,
                  state.phase = "BURNING" /\ state.activeStage = 2
                    /\ state.stage2Fuel > 0,
                  config.stage2.burnRate)
      /\ state.phase # "BURNING" =>
           /\ state'.stage1Fuel = state.stage1Fuel
           /\ state'.stage2Fuel = state.stage2Fuel ]_vars

\* Two steps of the stage-1 burn have drawn from a full tank, the tank of
\* stage 2 untouched.
C1_Witness ==
  /\ state.stage1Fuel = 8000 * FuelScale - 2 * config.stage1.burnRate
  /\ state.stage2Fuel = 10
  /\ state.phase = "BURNING"

\* C4: from fuels >= 0, every sequence of calculateNextState steps keeps
\* both fuels >= 0, the step that finds less than burnRate * DT included.
C4_FuelNonNegative == state.stage1Fuel >= 0 /\ state.stage2Fuel >= 0

\* Stage 2 has burned (delta-v was expended) and its tank, which held
\* less than one step's consumption, reads 0.
C4_Witness ==
  /\ state.activeStage = 2
  /\ state.deltaVExpended > 0
  /\ state.stage2Fuel = 0
  /\ state.stage1Fuel = 50

---------------------------------------------------------------------------
(* Ground contact and the terminal phases *)

\* C3: calculateNextState applied to a LANDED or CRASHED state returns the
\* same phase, the same altitude and the same velocity components.
C3_TerminalForIntegrator ==
  [][ state.phase \in {"LANDED", "CRASHED"} =>
        /\ state'.phase = state.phase
        /\ state'.altitude = state.altitude
        /\ state'.velocity = state.velocity
        /\ state'.velocityX = state.velocityX
        /\ state'.velocityY = state.velocityY ]_vars

\* C5: every state calculateNextState returns has altitude >= 0, and one
\* with altitude 0 has velocity, velocityX, velocityY and acceleration 0,
\* whatever the phase and the mission time.
C5_GroundClamp ==
  [][ /\ state'.altitude >= 0
      /\ state'.altitude = 0 =>
           /\ state'.velocity = 0
           /\ state'.velocityX = 0
           /\ state'.velocityY = 0
           /\ state'.acceleration = 0 ]_vars

\* A step taken inside the startup grace period has returned the vehicle
\* to the ground: no landing is declared, the phase is DESCENT.
C5_Witness ==
  /\ state.time = GraceTicks - 1
  /\ state.altitude = 0
  /\ state.phase = "DESCENT"
  /\ state.activeStage = 2

---------------------------------------------------------------------------
(* Staging *)

\* The tick integrates: tick calls calculateNextState on every phase but
\* PRE_LAUNCH, LANDED and CRASHED.
Integrates(s) == s.phase \notin {"PRE_LAUNCH", "LANDED", "CRASHED"}

\* The change of vertical velocity over an unpowered step from s.
CoastDeltaV(s, cfg) ==
  ((VelScale \div TicksPerSecond) * (Drag(s, cfg).y - ForceGravity(s, cfg)))
    \div CurrentMass(s, cfg)

\* Staging: what the step from s to t does when it separates stage 1.
Stages(s, t) ==
  /\ t.phase = "STAGING"
  /\ t.separationTime = s.time
  /\ t.velocity = s.velocity + CoastDeltaV(s, config) + SEPARATION_IMPULSE

\* Staging never happens a second time: a recorded separation time stays,
\* and STAGING is entered only with none recorded.
StagesOnce(s, t) ==
  /\ s.separationTime # Null => t.separationTime = s.separationTime
  /\ t.phase = "STAGING" /\ s.phase # "STAGING" => s.separationTime = Null

\* C2 as claimed: in a run from PRE_LAUNCH, the first step taken after
\* stage1Fuel has reached 0 enters STAGING, records separationTime and
\* applies the separation impulse, and staging never happens again.
C2_StagingOnFirstStepAfterDepletion ==
  [][ /\ Integrates(state) /\ state.stage1Fuel = 0
         /\ state.separationTime = Null => Stages(state, state')
      /\ StagesOnce(state, state') ]_vars

\* C2 amended: the step that finds stage 1 active, BURNING and empty is
\* the one that stages; no other step does, so a stage 1 that runs dry on
\* the step that ends the burn (DESCENT, LANDED or CRASHED) is never
\* separated; and staging never happens a second time.
C2_StagingWhileBurning ==
  [][ /\ state.phase = "BURNING" /\ state.activeStage = 1
         /\ state.stage1Fuel = 0 => Stages(state, state')
      /\ state'.separationTime # state.separationTime
         \/ (state'.phase = "STAGING" /\ state.phase # "STAGING") =>
           /\ state.phase = "BURNING"
           /\ state.activeStage = 1
           /\ state.stage1Fuel = 0
           /\ state.separationTime = Null
      /\ StagesOnce(state, state') ]_vars

\* Stage 2 burns after the one separation of a run that burned stage 1
\* dry in flight.
C2_Witness ==
  /\ state.phase = "BURNING"
  /\ state.activeStage = 2
  /\ state.separationTime = 2000
  /\ state.stage1Fuel = 0
  /\ state.stage2Fuel < config.stage2.fuelMass * FuelScale

---------------------------------------------------------------------------
(* End-to-end scenarios *)

\* Stage-1 thrust against the weight on the pad as step 4 computes it,
\* with EARTH_MU / EARTH_RADIUS^2.
LiftsOffPad(cfg) ==
  cfg.stage1.thrust > (InitialMass(cfg) * LocalGravity(0)) \div 1000

\* C6 as claimed: with TWR > 1 the first tick gives BURNING, and every
\* tick after it until stage-1 fuel is depleted raises the altitude.
C6_ClimbsUntilDepletion ==
  [][ TwrAbove(config, 100) =>
        /\ state.phase = "PRE_LAUNCH" => state'.phase = "BURNING"
        /\ Integrates(state) /\ state.activeStage = 1
           /\ state.stage1Fuel > 0 => state'.altitude > state.altitude ]_vars

\* C6 amended: the first tick gives BURNING; with fuel in stage 1 and a
\* thrust above the pad weight by EARTH_MU / EARTH_RADIUS^2 the second
\* tick lifts the vehicle off; from then on a tick of the stage-1 burn
\* raises the altitude exactly when it leaves the vertical velocity
\* positive, and otherwise ends the burn (DESCENT, LANDED or CRASHED).
C6_ClimbsWhileVelocityPositive ==
  [][ /\ state.phase = "PRE_LAUNCH" => state'.phase = "BURNING"
      /\ state.phase = "BURNING" /\ state.time = 0 /\ state.stage1Fuel > 0
         /\ LiftsOffPad(config) =>
           state'.altitude > 0 /\ state'.phase = "BURNING"
      /\ state.phase = "BURNING" /\ state.activeStage = 1
         /\ state.stage1Fuel > 0 =>
           /\ state'.altitude > state.altitude <=> state'.velocity > 0
           /\ state'.velocity > 0 => state'.phase = "BURNING"
           /\ state'.velocity < 0 \/ state'.altitude = 0 =>
                state'.phase \in {"DESCENT", "LANDED", "CRASHED"} ]_vars

\* A vehicle launched with TWR > 1.1 descends above 2 km with most of its
\* stage-1 fuel aboard.
C6_Witness ==
  /\ TwrAbove(config, 110)
  /\ state.phase = "DESCENT"
  /\ state.activeStage = 1
  /\ 2 * state.stage1Fuel > config.stage1.fuelMass * FuelScale
  /\ state.altitude > 2000 * AltScale
  /\ state.altitude < state.maxAltitude

\* AssemblyView's twr < 1.
TwrBelowOne(cfg) ==
  cfg.stage1.thrust * 100 < MulDiv(InitialMass(cfg) * 100, GRAVITY \div 10, 100)

\* C7: with TWR < 1 every state of a run started in PRE_LAUNCH on the
\* ground has altitude 0 and velocity <= 0.
C7_StaysOnGround ==
  TwrBelowOne(config) => state.altitude = 0 /\ state.velocity <= 0

\* C8: with both tanks empty, from altitude 0, velocity 0 and time 0, the
\* run is never CRASHED and is LANDED once the time has exceeded 1 s.
C8_ZeroFuelLands ==
  config.stage1.fuelMass = 0 /\ config.stage2.fuelMass = 0 =>
    /\ state.phase # "CRASHED"
    /\ state.time > GraceTicks + 1 => state.phase = "LANDED"

---------------------------------------------------------------------------
(* Propulsive recovery *)

\* C9: the run from the initial PRE_LAUNCH state reaches BOOSTBACK from
\* COASTING with stage 1 active, sets boostbackBurnComplete, reaches
\* RE-ENTRY, sets reentryBurnComplete and reaches LANDING, all before
\* LANDED or CRASHED: at touchdown both burns are marked complete and a
\* landing burn has started.
C9_RecoveryBeforeTouchdown ==
  config = DEFAULT_CONFIG /\ state.phase \in {"LANDED", "CRASHED"} =>
    /\ state.boostbackBurnComplete
    /\ state.reentryBurnComplete
    /\ state.landingBurnStartAltitude # Null

\* The run from the initial state coasts inside the boostback window, on
\* stage 2.
C9_Witness ==
  /\ config = DEFAULT_CONFIG
  /\ state.phase = "COASTING"
  /\ state.altitude > 60000 * AltScale
  /\ state.altitude < 80000 * AltScale
  /\ state.activeStage = 2
  /\ ~state.boostbackBurnComplete

\* No state of any run is in a recovery phase or has a recovery burn
\* marked complete; COASTING comes with stage 2 only.
NoRecoveryBranch ==
  /\ state.phase \notin {"BOOSTBACK", "RE-ENTRY", "LANDING"}
  /\ ~state.boostbackBurnComplete
  /\ ~state.reentryBurnComplete
  /\ state.phase = "COASTING" => state.activeStage = 2

---------------------------------------------------------------------------
(* physicsEngine.ts: predictFlightPath *)

\* predDT = 0.5 s, in ticks.
PredTicks == 10

\* The default of horizonSeconds.
DefaultHorizon == 60

\* "{ ...startState }" evaluates to a fresh object.  The objects of one
\* call are "start", the caller's, and "temp", the fresh one; the argument
\* is the object spread, the result the object tempState refers to.
SpreadAlias(object) == object

SpreadCopy(object) == "temp"

\* One pass of the loop body up to the ground test: the tempState it
\* leaves (fuel in fuel units, not floored).
PredictIteration(temp, cfg) ==
  LET currentMass == CurrentMass(temp, cfg)
      density == getAtmosphericProperties(temp.altitude).density
      gravity == (currentMass * GRAVITY) \div 1000
      vM == temp.velocity \div VelScale
      drag == -(Sign(vM)
                * ((DynamicPressure(density, Abs(vM)) * cfg.dragCoefficient
                    * ROCKET_CROSS_SECTION_AREA) \div 1000))
      burning == temp.phase = "BURNING"
      burns1 == burning /\ temp.activeStage = 1 /\ temp.stage1Fuel > 0
      switches == burning /\ temp.activeStage = 1 /\ temp.stage1Fuel <= 0
      burns2 == burning /\ temp.activeStage # 1 /\ temp.stage2Fuel > 0
      coasts == burning /\ temp.activeStage # 1 /\ temp.stage2Fuel <= 0
      thrust == IF burns1 THEN cfg.stage1.thrust
                ELSE IF burns2 THEN cfg.stage2.thrust ELSE 0
      velocity1 == IF switches THEN temp.velocity + SEPARATION_IMPULSE
                   ELSE temp.velocity
      \* acc * predDT in velocity units
      dv == ((VelScale \div 2) * (thrust + drag - gravity)) \div currentMass
      velocity2 == velocity1 + dv
  IN  [temp EXCEPT
        !.stage1Fuel = IF burns1 THEN @ - cfg.stage1.burnRate * PredTicks ELSE @,
        !.stage2Fuel = IF burns2 THEN @ - cfg.stage2.burnRate * PredTicks ELSE @,
        !.activeStage = IF switches THEN 2 ELSE @,
        !.phase = IF coasts THEN "COASTING" ELSE @,
        !.velocity = velocity2,
        !.altitude = @ + PredTicks * velocity2,
        !.time = @ + PredTicks]

Point(time, predictedAltitude) ==
  [time |-> time, predictedAltitude |-> predictedAltitude]

\* The sample without the ground test.
SampleBelowGround(temp) == Point(temp.time, temp.altitude)

\* The sample a pass pushes: predictedAltitude 0 when the altitude is at
\* or below the ground, the altitude otherwise.
Sample(temp) ==
  Point(temp.time, IF temp.altitude <= 0 THEN 0 ELSE temp.altitude)

\* The object tempState refers to, as the call in progress sees it: the
\* caller's object "start" holds the fields of state, the fresh object
\* "temp" those of predictor.temp.
TempObject == IF predictor.tempRef = "start" THEN state ELSE predictor.temp

\* predictFlightPath(state, config, horizonSeconds) is entered: the lines
\* before the loop.
PredictCall(horizonSeconds) ==
  /\ predictor.pc = "idle"
  /\ prediction = <<>>
  /\ predictor' =
       [pc |-> IF 2 * horizonSeconds > 0 THEN "loop" ELSE "done",
        i |-> 0, maxSteps |-> 2 * horizonSeconds,
        tempRef |-> SpreadCopy("start"),
        points |-> <<Point(state.time, state.altitude)>>,
        temp |-> state]
  /\ UNCHANGED <<state, config, isRunning, currentView, prediction, call, frameCount>>

\* One pass of the for loop: the assignments to tempState's fields go to
\* the object tempState refers to.
PredictPass ==
  /\ predictor.pc = "loop"
  /\ LET temp == PredictIteration(TempObject, config)
         break == temp.altitude <= 0
     IN  /\ predictor' =
               [predictor EXCEPT
                  !.temp = IF predictor.tempRef = "start" THEN @ ELSE temp,
                  !.points = Append(@, Sample(temp)),
                  !.i = @ + 1,
                  !.pc = IF break \/ predictor.i + 1 >= predictor.maxSteps
                           THEN "done" ELSE "loop"]
         /\ state' = IF predictor.tempRef = "start" THEN temp ELSE state
  /\ UNCHANGED <<config, isRunning, currentView, prediction, call, frameCount>>

\* "return points", and the caller's setPrediction.
PredictReturn ==
  /\ predictor.pc = "done"
  /\ prediction' = predictor.points
  /\ predictor' = [predictor EXCEPT !.pc = "idle"]
  /\ UNCHANGED <<state, config, isRunning, currentView, call, frameCount>>

---------------------------------------------------------------------------
(* The predictor alone: predictFlightPath called on a live state drawn    *)
(* from bounded sets of field values.                                     *)

MaxHorizon == 60

PredictConfigs == { DEFAULT_CONFIG, SoundingConfig }
PredictHorizons == { 0, 3, MaxHorizon }
PredictPhases == { "PRE_LAUNCH", "BURNING", "COASTING", "DESCENT" }
PredictTimes == { 0, 200 }
PredictAltitudes == { 0, 100 * AltScale, 30000 * AltScale }
PredictVelocities == { -200 * VelScale, 0, 300 * VelScale }
PredictStage1Fuels == { 0, 250, 1 }
PredictStage2Fuels == { 0, 1 }

\* A tank reading of the bounded sets: 0 and 250 are fuel units, 1 is the
\* full tank of the configuration.
TankReading(reading, fuelMass) ==
  IF reading = 1 THEN fuelMass * FuelScale ELSE reading

PredictInit ==
  /\ config \in PredictConfigs
  /\ \E phase \in PredictPhases, time \in PredictTimes,
        altitude \in PredictAltitudes, velocity \in PredictVelocities,
        stage1Fuel \in PredictStage1Fuels, stage2Fuel \in PredictStage2Fuels,
        activeStage \in {1, 2} :
       /\ state = [INITIAL_STATE EXCEPT
                     !.phase = phase, !.time = time, !.altitude = altitude,
                     !.velocity = velocity, !.velocityY = velocity,
                     !.stage1Fuel = TankReading(stage1Fuel, config.stage1.fuelMass),
                     !.stage2Fuel = TankReading(stage2Fuel, config.stage2.fuelMass),
                     !.activeStage = activeStage,
                     !.separationTime = IF activeStage = 2 THEN 0 ELSE Null,
                     !.maxAltitude = altitude, !.maxVelocity = Max(0, velocity)]
       /\ Plausible(state)
       /\ activeStage = 2 => stage1Fuel = 0
  /\ isRunning = FALSE
  /\ currentView = "simulation"
  /\ prediction = <<>>
  /\ predictor = NoCall
  /\ call = NoGuidanceCall
  /\ frameCount = 0

PredictNext ==
  \/ \E horizonSeconds \in PredictHorizons : PredictCall(horizonSeconds)
  \/ PredictPass
  \/ PredictReturn

PredictSpec == PredictInit /\ [][PredictNext]_vars

\* C10: predictFlightPath leaves every field of the state it is given,
\* and of the configuration, as it was before the call, also when the
\* predictor burns fuel, stages and changes phase on the way.
C10_PredictorLeavesStartState ==
  [][state' = state /\ config' = config]_vars

\* A call is about to return whose tempState burned stage-1 fuel, staged
\* and went from BURNING to COASTING, the state it was given being still
\* BURNING on stage 1.
C10_Witness ==
  /\ predictor.pc = "done"
  /\ state.phase = "BURNING"
  /\ state.activeStage = 1
  /\ state.stage1Fuel = 250
  /\ predictor.temp.phase = "COASTING"
  /\ predictor.temp.activeStage = 2
  /\ predictor.temp.stage1Fuel < 0
  /\ Len(predictor.points) > 2

---------------------------------------------------------------------------
(* The functions of landingGuidance.ts, and getAtmosphericProperties,     *)
(* alone: each called on arguments drawn from bounded sets.                *)

\* m/s, in velocity units: the tier boundaries 2, 5, 10 and 20, one unit
\* below each, and values inside the tiers, of either sign.
RecoverySpeeds ==
  { 0, 2 * VelScale - 1, 2 * VelScale, 5 * VelScale - 1, 5 * VelScale,
    10 * VelScale - 1, 10 * VelScale, 20 * VelScale - 1, 20 * VelScale,
    25 * VelScale }
RecoveryVelocities == RecoverySpeeds \cup { -v : v \in RecoverySpeeds }
\* mm
RecoveryAccuracies == { 0, 49999, 50000, 50001, 100000, 100001, 500000 }
\* 0.01 degree
RecoveryTilts ==
  { -7000, -1001, -1000, -501, -500, -499, 0, 499, 500, 501, 1000, 1001, 7000 }

CallRecoveryPercentage ==
  /\ call.fn = "none"
  /\ \E landingVelocity \in RecoveryVelocities,
        landingAccuracy \in RecoveryAccuracies, tiltAngle \in RecoveryTilts :
       call' = [fn |-> "calculateRecoveryPercentage",
                args |-> <<landingVelocity, landingAccuracy, tiltAngle>>,
                result |-> calculateRecoveryPercentage(landingVelocity,
                                                       landingAccuracy, tiltAngle)]
  /\ UNCHANGED <<state, config, isRunning, currentView, prediction, predictor,
               frameCount>>

\* altitude units
ImpactAltitudes ==
  { 0, 1, AltScale, 100 * AltScale, 1000 * AltScale, 50000 * AltScale,
    100000 * AltScale }
\* velocity units
ImpactVelocities ==
  { -2000 * VelScale, -500 * VelScale, -30 * VelScale, -VelScale, -1, 0, 1,
    VelScale, 300 * VelScale }

CallTimeToImpact ==
  /\ call.fn = "none"
  /\ \E altitude \in ImpactAltitudes, velocity \in ImpactVelocities :
       call' = [fn |-> "calculateTimeToImpact",
                args |-> <<altitude, velocity>>,
                result |-> calculateTimeToImpact(altitude, velocity)]
  /\ UNCHANGED <<state, config, isRunning, currentView, prediction, predictor,
               frameCount>>

\* m/s, in velocity units
BurnVelocities ==
  { 0, VelScale, 5 * VelScale, 20 * VelScale, 50 * VelScale, 100 * VelScale,
    200 * VelScale, 500 * VelScale, 1000 * VelScale }
\* kg: none, and stage 1 of DEFAULT_CONFIG empty and full
BurnMasses == { 0, 2000, 10000 }
\* N: none, the weight of either mass by GRAVITY, and thrusts below and
\* above
BurnThrusts == { 0, 19620, 50000, 98100, 100000, 250000 }
\* kg/s
BurnRates == { 0, 80 }

\* A call of calculateSuicideBurnAltitude, and after it calls with the
\* same mass, thrust and burnRate at greater speeds.
CallSuicideBurnAltitude ==
  /\ call.fn \in {"none", "calculateSuicideBurnAltitude"}
  /\ \E velocity \in BurnVelocities, mass \in BurnMasses,
        thrust \in BurnThrusts, burnRate \in BurnRates :
       /\ call.fn = "calculateSuicideBurnAltitude" =>
            /\ velocity > call.args[1]
            /\ <<mass, thrust, burnRate>>
                 = <<call.args[2], call.args[3], call.args[4]>>
       /\ call' = [fn |-> "calculateSuicideBurnAltitude",
                   args |-> <<velocity, mass, thrust, burnRate>>,
                   result |-> calculateSuicideBurnAltitude(velocity, mass,
                                                           thrust, burnRate)]
  /\ UNCHANGED <<state, config, isRunning, currentView, prediction, predictor,
               frameCount>>

\* altitude units: the ground, 10 m, 100 m, 1 km and 50 km
GuidanceAltitudes ==
  { 0, 10 * AltScale, 100 * AltScale, 1000 * AltScale, 50000 * AltScale }
\* velocity units: falling fast, falling near the target velocity, at
\* rest and rising
GuidanceVelocities ==
  { -200 * VelScale, -13 * VelScale, -10 * VelScale, -2 * VelScale, 0,
    50 * VelScale }
\* 0.1 m/s^2
GuidanceAccelerations == { -20, 0, 5, 100 }
\* stage-1 thrusts of 250 kN and 125 kN on a dry mass of 2000 kg
GuidanceConfigs == { DEFAULT_CONFIG, LowThrustConfig }

\* A call of computeLandingGuidance on a state of each phase.
CallLandingGuidance ==
  /\ call.fn = "none"
  /\ \E phase \in Phases, altitude \in GuidanceAltitudes,
        velocity \in GuidanceVelocities,
        acceleration \in GuidanceAccelerations, cfg \in GuidanceConfigs,
        full \in BOOLEAN :
       LET s == [ResetState(cfg) EXCEPT
                   !.phase = phase, !.altitude = altitude,
                   !.velocity = velocity, !.velocityY = velocity,
                   !.acceleration = acceleration,
                   !.stage1Fuel = IF full THEN @ ELSE 0]
       IN  call' = [fn |-> "computeLandingGuidance",
                    args |-> <<s, cfg>>,
                    result |-> computeLandingGuidance(s, cfg, 0).targetThrottle]
  /\ UNCHANGED <<state, config, isRunning, currentView, prediction, predictor,
               frameCount>>

\* altitude units: the ground, every finite ceiling with the altitudes
\* one unit and one metre below and above it, and 210 km
AtmosphereAltitudes ==
  {0, 1, 5000 * AltScale, 210000 * AltScale}
    \cup UNION { { LayerMaxAlt[i] * AltScale + d :
                     d \in {-AltScale, -1, 0, 1, AltScale} } :
                 i \in 1..Len(LayerMaxAlt) }

\* A call of getAtmosphericProperties.
CallAtmosphericProperties ==
  /\ call.fn = "none"
  /\ \E altitude \in AtmosphereAltitudes :
       call' = [fn |-> "getAtmosphericProperties",
                args |-> <<altitude>>,
                result |-> getAtmosphericProperties(altitude)]
  /\ UNCHANGED <<state, config, isRunning, currentView, prediction, predictor,
               frameCount>>

GuidanceInit ==
  /\ config = DEFAULT_CONFIG
  /\ state = INITIAL_STATE
  /\ isRunning = FALSE
  /\ currentView = "assembly"
  /\ prediction = <<>>
  /\ predictor = NoCall
  /\ call = NoGuidanceCall
  /\ frameCount = 0

GuidanceNext ==
  \/ CallRecoveryPercentage
  \/ CallTimeToImpact
  \/ CallSuicideBurnAltitude
  \/ CallLandingGuidance
  \/ CallAtmosphericProperties

GuidanceSpec == GuidanceInit /\ [][GuidanceNext]_vars

\* C11: calculateRecoveryPercentage returns exactly 100 when
\* |landingVelocity| < 2, landingAccuracy < 50 and |tiltAngle| < 5; exactly
\* 0 when |landingVelocity| >= 20, whatever the accuracy and the tilt; and
\* a value in [0, 100] for every input.
C11_RecoveryPercentage ==
  call.fn = "calculateRecoveryPercentage" =>
    LET landingVelocity == call.args[1]
        landingAccuracy == call.args[2]
        tiltAngle == call.args[3]
    IN  /\ Abs(landingVelocity) < 2 * VelScale /\ landingAccuracy < 50000
           /\ Abs(tiltAngle) < 5 * AngleScale => call.result = 10000
        /\ Abs(landingVelocity) >= 20 * VelScale => call.result = 0
        /\ call.result >= 0 /\ call.result <= 10000

\* A touchdown just inside all three "perfect" bands was rated 100.
C11_Witness ==
  /\ call.fn = "calculateRecoveryPercentage"
  /\ call.args = <<-(2 * VelScale - 1), 49999, 499>>
  /\ call.result = 10000

\* C12: calculateTimeToImpact returns Infinity for every velocity >= 0 at
\* any altitude, exactly 0 at altitude 0 for every velocity < 0, and a
\* finite value >= 0 for every altitude >= 0 with velocity < 0.
C12_TimeToImpact ==
  call.fn = "calculateTimeToImpact" =>
    LET altitude == call.args[1]
        velocity == call.args[2]
    IN  /\ velocity >= 0 => call.result = Infinity
        /\ velocity < 0 /\ altitude = 0 => call.result = 0
        /\ velocity < 0 =>
             call.result >= 0 /\ call.result # Infinity

\* A fall from 1 km at 30 m/s was timed between 10 and 15 s.
C12_Witness ==
  /\ call.fn = "calculateTimeToImpact"
  /\ call.args = <<1000 * AltScale, -30 * VelScale>>
  /\ call.result > 10000
  /\ call.result < 15000

\* a <= b as the program evaluates it: false when either side is NaN.
Leq(a, b) == a # NaN /\ b # NaN /\ a <= b

\* C13: for fixed mass, thrust and burnRate the result of
\* calculateSuicideBurnAltitude at a speed v1 is <= its result at every
\* speed v2 > v1 >= 0, with and without the average-mass refinement.
C13_BurnAltitudeMonotone ==
  [][ /\ call.fn = "calculateSuicideBurnAltitude"
      /\ call'.fn = "calculateSuicideBurnAltitude"
      /\ call.args[1] < call'.args[1]
      /\ <<call.args[2], call.args[3], call.args[4]>>
           = <<call'.args[2], call'.args[3], call'.args[4]>>
      => Leq(call.result, call'.result) ]_vars

\* The refinement ran: with burnRate > 0 and a thrust of 12.5 times the
\* weight, a burn from 500 m/s was given less altitude than without the
\* mass change, and more than the 100 m margin.
C13_Witness ==
  /\ call.fn = "calculateSuicideBurnAltitude"
  /\ call.args = <<500 * VelScale, 2000, 250000, 80>>
  /\ call.result > 100 * AltScale
  /\ call.result < calculateSuicideBurnAltitude(500 * VelScale, 2000, 250000, 0)

\* Off the singular point thrust = mass * GRAVITY at rest, the results
\* are ordered as the speeds.
BurnAltitudeMonotoneOffSingularity ==
  [][ /\ call.fn = "calculateSuicideBurnAltitude"
      /\ call'.fn = "calculateSuicideBurnAltitude"
      /\ call.result # NaN
      => call.result <= call'.result ]_vars

\* C26: calculateSuicideBurnAltitude returns 0 whenever thrust / mass -
\* GRAVITY <= 0 at the given mass and whenever mass <= 0 or thrust <= 0,
\* for every velocity and burnRate >= 0; in every other case it returns
\* at least the 100 m margin.
C26_ZeroWhenNoDeceleration ==
  call.fn = "calculateSuicideBurnAltitude" =>
    LET mass == call.args[2]
        thrust == call.args[3]
        cannotDecelerate ==
          mass <= 0 \/ thrust <= 0 \/ thrust * 1000 <= mass * GRAVITY
    IN  IF cannotDecelerate THEN call.result = 0
        ELSE call.result # NaN /\ call.result >= 100 * AltScale

\* A call with thrust / mass equal to GRAVITY, a positive burnRate and a
\* speed of 50 m/s returned more than the margin: the loop had lightened
\* the vehicle.
C26_Witness ==
  /\ call.fn = "calculateSuicideBurnAltitude"
  /\ call.args = <<50 * VelScale, 2000, 19620, 80>>
  /\ call.result > 100 * AltScale

\* What the function does return: 0 when the thrust is below the weight
\* of a positive mass, or equals it with no burnRate; the margin or more
\* when the thrust is above the weight; and nothing between 0 and the
\* margin in any case.
BurnAltitudeZeroOrMargin ==
  call.fn = "calculateSuicideBurnAltitude" =>
    LET mass == call.args[2]
        thrust == call.args[3]
        burnRate == call.args[4]
    IN  /\ mass > 0 /\ thrust * 1000 < mass * GRAVITY => call.result = 0
        /\ mass > 0 /\ thrust * 1000 = mass * GRAVITY /\ burnRate = 0
             => call.result = 0
        /\ thrust * 1000 > mass * GRAVITY => call.result >= 100 * AltScale
        /\ call.result \in {NaN, 0} \/ call.result >= 100 * AltScale

\* C27: computeLandingGuidance returns targetThrottle 1.0 in phase
\* BOOSTBACK, 0.7 in phase RE-ENTRY, a value within [0.1, 1.0] in phase
\* LANDING for every altitude, velocity, acceleration and positive stage-1
\* mass and thrust, and 0 in every other phase.
C27_TargetThrottle ==
  call.fn = "computeLandingGuidance" =>
    LET phase == call.args[1].phase
    IN  CASE phase = "BOOSTBACK" -> call.result = ThrottleScale
          [] phase = "RE-ENTRY" -> call.result = (7 * ThrottleScale) \div 10
          [] phase = "LANDING" -> /\ call.result >= ThrottleScale \div 10
                                  /\ call.result <= ThrottleScale
          [] OTHER -> call.result = 0

\* A call in phase LANDING, 13 m/s down at 100 m, whose controller output
\* lay strictly between the limits.
C27_Witness ==
  /\ call.fn = "computeLandingGuidance"
  /\ call.args[1].phase = "LANDING"
  /\ call.args[1].altitude = 100 * AltScale
  /\ call.args[1].velocity = -13 * VelScale
  /\ call.result > ThrottleScale \div 10
  /\ call.result < ThrottleScale

\* C28 as stated: for every altitude a >= 0 getAtmosphericProperties
\* uses the first layer in table order whose ceiling strictly exceeds a,
\* so that an altitude equal to a ceiling belongs to the next layer up;
\* altitudes above every finite ceiling use the Exosphere.
C28_FirstCeilingAbove ==
  call.fn = "getAtmosphericProperties" =>
    LET a == call.args[1]
        above == { i \in 1..Len(LayerMaxAlt) : LayerMaxAlt[i] * AltScale > a }
        first == IF above = {} THEN Len(LayerNames)
                 ELSE CHOOSE i \in above : \A j \in above : i <= j
    IN  call.result.layer = LayerNames[first]

\* C28: for every altitude a >= 0 getAtmosphericProperties uses the first
\* layer in table order whose ceiling is greater than or equal to a, so
\* that an altitude equal to a ceiling belongs to the layer that ends
\* there; altitudes above every finite ceiling use the Exosphere.
C28_FirstCeilingAtOrAbove ==
  call.fn = "getAtmosphericProperties" =>
    LET a == call.args[1]
        atOrAbove ==
          { i \in 1..Len(LayerMaxAlt) : LayerMaxAlt[i] * AltScale >= a }
        first == IF atOrAbove = {} THEN Len(LayerNames)
                 ELSE CHOOSE i \in atOrAbove : \A j \in atOrAbove : i <= j
    IN  call.result.layer = LayerNames[first]

\* A call at exactly 11000 m was answered from the Troposphere.
C28_Witness ==
  /\ call.fn = "getAtmosphericProperties"
  /\ call.args[1] = 11000 * AltScale
  /\ call.result.layer = "Troposphere"

---------------------------------------------------------------------------
(* The global phase checks and the integration, step by step *)

\* C14: a step whose integrated altitude is <= 0 and whose pre-step time
\* is past the grace period gives LANDED when the integrated vertical
\* velocity has magnitude <= 10 m/s and CRASHED otherwise, whatever the
\* pre-step phase and the decision of the burn logic; a step with
\* integrated altitude <= 0 inside the grace period gives neither.
C14_GroundContactDecides ==
  [][ LET computed == Integration(state, config)
      IN  /\ computed.newAltitude <= 0 /\ state.time >= GraceTicks =>
               state'.phase = IF Abs(computed.newVelocityY) <= LandingSpeedLimit
                                THEN "LANDED" ELSE "CRASHED"
          /\ computed.newAltitude <= 0 /\ state.time < GraceTicks =>
               state'.phase \notin {"LANDED", "CRASHED"} ]_vars

\* A step past the grace period separated stage 1 and hit the ground: the
\* separation time is the pre-step time, the phase is CRASHED.
C14_Witness ==
  /\ state.phase = "CRASHED"
  /\ state.time > GraceTicks + 1
  /\ state.separationTime = state.time - 1
  /\ state.altitude = 0

\* C17: a step that does not end in ground contact past the grace period,
\* leaves the integrated vertical velocity negative and whose burn logic
\* decided a phase other than DESCENT, LANDED and CRASHED gives DESCENT:
\* from BURNING with fuel left, from STAGING and from COASTING, and over a
\* same-step decision for STAGING, BURNING on stage 2 or COASTING.
C17_FallingGivesDescent ==
  [][ LET computed == Integration(state, config)
      IN  /\ ~(computed.newAltitude <= 0 /\ state.time >= GraceTicks)
          /\ computed.newVelocityY < 0
          /\ computed.burn.newPhase \notin {"DESCENT", "LANDED", "CRASHED"}
          => state'.phase = "DESCENT" ]_vars

\* A step separated stage 1 while falling: the separation time is the
\* pre-step time, the vehicle is in flight and the phase is DESCENT.
C17_Witness ==
  /\ state.phase = "DESCENT"
  /\ state.separationTime = state.time - 1
  /\ state.separationTime > 1
  /\ state.altitude > 0
  /\ state.velocity < 0

\* C18: a step that is not clamped at the ground advances the altitude by
\* the input state's velocityY * DT and the downrange distance by the
\* input state's velocityX * DT, the velocities themselves being advanced
\* by the acceleration (and the separation impulse).
C18_PositionFromOldVelocity ==
  [][ state'.altitude > 0 =>
        LET computed == Integration(state, config)
        IN  /\ state'.altitude = state.altitude + state.velocityY
            /\ state'.downrangeDistance
                 = state.downrangeDistance + state.velocityX \div 10
            /\ state'.velocity = state.velocity + computed.dvVertical
                                 + computed.burn.velocityAdjustment ]_vars

\* What the step does: the position is advanced by the velocity the step
\* has just computed.
PositionFromNewVelocity ==
  [][ state'.altitude > 0 =>
        /\ state'.altitude = state.altitude + state'.velocityY
        /\ state'.downrangeDistance
             = state.downrangeDistance + state'.velocityX \div 10 ]_vars

DwellThenStage2AfterLiftoff ==
  [][ state.phase = "STAGING" /\ state.separationTime \notin {Null, 0} =>
        IF state.time - state.separationTime > StagingDwellTicks
          THEN /\ state'.activeStage = 2
               /\ state'.phase \in {"BURNING", "DESCENT", "LANDED", "CRASHED"}
          ELSE /\ state'.activeStage = state.activeStage
               /\ state'.phase # "BURNING" ]_vars

---------------------------------------------------------------------------
(* Gravity turn *)

\* C19: across every step the thrust angle changes by at most 0.5 degree
\* and ends between its old value and the gravity-turn target for the
\* pre-step altitude; a step from a phase other than BURNING leaves it as
\* it was; and from thrustAngle = 0 it stays within [0, 70] degrees.
C19_BoundedTurn ==
  [][ LET targetAngle == getGravityTurnAngle(state.altitude \div AltScale)
      IN  /\ Abs(state'.thrustAngle - state.thrustAngle) <= MaxTurnRate
          /\ \/ state.thrustAngle <= state'.thrustAngle
                /\ state'.thrustAngle <= targetAngle
             \/ targetAngle <= state'.thrustAngle
                /\ state'.thrustAngle <= state.thrustAngle
             \/ state'.thrustAngle = state.thrustAngle
          /\ state.phase = "BURNING" /\ state'.time > state.time
             /\ state.thrustAngle # targetAngle =>
               Abs(targetAngle - state'.thrustAngle)
                 < Abs(targetAngle - state.thrustAngle)
          /\ state.phase # "BURNING" => state'.thrustAngle = state.thrustAngle
          /\ state'.thrustAngle >= 0
          /\ state'.thrustAngle <= 70 * AngleScale ]_vars

\* Stage 2 burns with the thrust angle more than one step's turn behind a
\* target that moved on while the angle was held through STAGING.
C19_Witness ==
  /\ state.phase = "BURNING"
  /\ state.activeStage = 2
  /\ state.thrustAngle > 0
  /\ getGravityTurnAngle(state.altitude \div AltScale) - state.thrustAngle
       > MaxTurnRate

---------------------------------------------------------------------------
(* Touchdown ends the run *)

\* C15: a step taken on LANDED or CRASHED, other than a reset, changes no
\* field of the state but recoveryPercentage, and leaves a run that was
\* going stopped; recoveryPercentage changes only from 0, only on LANDED
\* and only while the run is going, and it is 0 in every CRASHED state.
C15_TerminalTick ==
  /\ [](state.phase = "CRASHED" => state.recoveryPercentage = 0)
  /\ [][ state.phase \in {"LANDED", "CRASHED"} /\ ~Reset =>
           /\ state' = [state EXCEPT
                          !.recoveryPercentage = state'.recoveryPercentage]
           /\ isRunning => ~isRunning'
           /\ state'.recoveryPercentage # state.recoveryPercentage =>
                /\ state.phase = "LANDED"
                /\ state.recoveryPercentage = 0
                /\ isRunning ]_vars

\* Play pressed again after the tick that set the recovery percentage.
C15_Witness ==
  /\ state.phase = "LANDED"
  /\ state.recoveryPercentage > 0
  /\ isRunning

---------------------------------------------------------------------------
(* The order of the recovery burns *)

\* C20: a step that enters RE-ENTRY is taken with boostbackBurnComplete
\* true and reentryBurnComplete false, before and after it; a step that
\* enters LANDING is taken with reentryBurnComplete true; a step that
\* enters BOOSTBACK is taken with boostbackBurnComplete false; and a step
\* that is not a reset leaves each of the two flags true if it was true.
C20_BurnsOrdered ==
  [][ /\ state.phase # "RE-ENTRY" /\ state'.phase = "RE-ENTRY" =>
           /\ state.boostbackBurnComplete /\ ~state.reentryBurnComplete
           /\ state'.boostbackBurnComplete /\ ~state'.reentryBurnComplete
      /\ state.phase # "LANDING" /\ state'.phase = "LANDING" =>
           state.reentryBurnComplete /\ state'.reentryBurnComplete
      /\ state.phase # "BOOSTBACK" /\ state'.phase = "BOOSTBACK" =>
           ~state.boostbackBurnComplete /\ ~state'.boostbackBurnComplete
      /\ state.boostbackBurnComplete /\ ~Reset => state'.boostbackBurnComplete
      /\ state.reentryBurnComplete /\ ~Reset => state'.reentryBurnComplete ]_vars

\* Ticks have been taken, and the last one found the vehicle falling, for
\* which calculateNextState gives DESCENT: its guidance block has started
\* the re-entry burn, after the boostback burn.
C20_Witness ==
  /\ state.phase = "RE-ENTRY"
  /\ state.velocity < 0
  /\ state.gridFinsDeployed
  /\ state.boostbackBurnComplete
  /\ ~state.reentryBurnComplete
  /\ state.time = MaxTickTime

---------------------------------------------------------------------------
(* Landing legs *)

\* C21: a step that deploys the landing legs ends below 1 km, above the
\* ground and with the vehicle falling, so that the legs are never deployed
\* on the ascent; and a step that is not a reset leaves deployed legs
\* deployed.
C21_LegsOnlyWhenFalling ==
  [][ /\ ~state.landingLegsDeployed /\ state'.landingLegsDeployed =>
           /\ state'.altitude < 1000 * AltScale
           /\ state'.altitude > 0
           /\ state'.velocity < 0
      /\ state.landingLegsDeployed /\ ~Reset => state'.landingLegsDeployed ]_vars

\* The legs are out on the stage-1 burn, the vehicle climbing.
C21_Witness ==
  /\ state.landingLegsDeployed
  /\ state.phase = "BURNING"
  /\ state.activeStage = 1
  /\ state.velocity > 0

\* What the code does give: the legs are deployed below 1 km and above
\* the ground, whichever way the vehicle moves, and stay deployed.
LegsBelowOneKm ==
  [][ /\ ~state.landingLegsDeployed /\ state'.landingLegsDeployed =>
           state'.altitude < 1000 * AltScale /\ state'.altitude > 0
      /\ state.landingLegsDeployed /\ ~Reset => state'.landingLegsDeployed ]_vars

---------------------------------------------------------------------------
(* Delta-v *)

\* The thrust of the active stage.
ActiveThrust(s, cfg) ==
  IF s.activeStage = 1 THEN cfg.stage1.thrust ELSE cfg.stage2.thrust

\* The fuel of the active stage.
ActiveFuel(s) == IF s.activeStage = 1 THEN s.stage1Fuel ELSE s.stage2Fuel

\* C22: on a step of calculateNextState taken in BURNING with fuel in the
\* active stage deltaVExpended grows by the thrust of that stage times DT
\* over the mass before the step, which is more than nothing; on every
\* other step it is unchanged; so it never decreases.
C22_DeltaVBudget ==
  [][ LET burns == state.phase = "BURNING" /\ ActiveFuel(state) > 0
          gain == (ActiveThrust(state, config) * VelScale)
                    \div (CurrentMass(state, config) * TicksPerSecond)
      IN  /\ state'.deltaVExpended >= state.deltaVExpended
          /\ burns => /\ state'.deltaVExpended = state.deltaVExpended + gain
                      /\ state'.deltaVExpended > state.deltaVExpended
          /\ ~burns => state'.deltaVExpended = state.deltaVExpended ]_vars

\* A burn has added to the budget, and a step without thrust has left it:
\* the vehicle is between the stages.
C22_Witness ==
  /\ state.phase = "STAGING"
  /\ state.deltaVExpended > 0
  /\ state.time > state.separationTime + 1

---------------------------------------------------------------------------
(* The configuration is fixed before launch *)

\* C23: in every state of the App, PRE_LAUNCH comes with time 0, altitude
\* 0, no velocity and both tanks holding the fuelMass of the current
\* configuration; and a step that changes the configuration is taken in
\* PRE_LAUNCH with no run in progress.
C23_ConfigBeforeLaunch ==
  /\ [](state.phase = "PRE_LAUNCH" =>
          /\ state.time = 0
          /\ state.altitude = 0
          /\ state.velocity = 0 /\ state.velocityX = 0 /\ state.velocityY = 0
          /\ state.stage1Fuel = config.stage1.fuelMass * FuelScale
          /\ state.stage2Fuel = config.stage2.fuelMass * FuelScale)
  /\ [][ config' # config => state.phase = "PRE_LAUNCH" /\ ~isRunning ]_vars

\* A run of an edited configuration has been flown and reset in the
\* simulation view.
C23_Witness ==
  /\ currentView = "simulation"
  /\ state.phase = "PRE_LAUNCH"
  /\ config # DEFAULT_CONFIG
  /\ prediction = <<>>
  /\ frameCount # 0

---------------------------------------------------------------------------
(* The velocity field *)

\* sqrt(x * x + y * y) for two velocities, the squares taken in units
\* of 0.2 m/s: the result is within one such unit of the magnitude.
Magnitude(x, y) ==
  100 * Sqrt((Abs(x) \div 100) * (Abs(x) \div 100)
             + (Abs(y) \div 100) * (Abs(y) \div 100))

\* C24: in the state a step of calculateNextState returns, velocity is the
\* magnitude of (velocityX, velocityY), to within 0.4 m/s, hence not
\* negative, and maxVelocity is the greater of the
\* old maxVelocity and that velocity.
C24_VelocityIsMagnitude ==
  [][ /\ state'.velocity >= 0
      /\ Abs(state'.velocity - Magnitude(state'.velocityX, state'.velocityY))
           <= 200
      /\ state'.maxVelocity = Max(state.maxVelocity, state'.velocity) ]_vars

\* A returned state with a negative velocity: the vehicle is falling.
C24_Witness ==
  /\ state.time \notin StepTimes
  /\ state.velocity < 0
  /\ state.velocity = state.velocityY

\* What the code gives: velocity is the vertical component, of either
\* sign, and maxVelocity is the running maximum of it.
VelocityIsVertical ==
  [][ /\ state'.velocity = state'.velocityY
      /\ state'.maxVelocity = Max(state.maxVelocity, state'.velocity) ]_vars

---------------------------------------------------------------------------
(* The samples of predictFlightPath *)

\* C25: during a call of predictFlightPath and after it, there are at
\* most 1 + horizonSeconds / 0.5 samples; the first has the time and the
\* altitude of the start state; each next one is 0.5 s later; no
\* predictedAltitude is negative; a pass that leaves the altitude at or
\* below 0 pushes a sample with predictedAltitude 0 and ends the loop, so
\* that no sample follows it; every pass of the loop counts i up towards
\* maxSteps, which ends the loop at the latest; and what is returned is
\* these samples.
C25_PredictionSamples ==
  /\ [](predictor.pc # "idle" \/ prediction # <<>> =>
          LET points == predictor.points
              n == Len(points)
          IN  /\ n >= 1
              /\ n <= 1 + predictor.maxSteps
              /\ n = 1 + predictor.i
              /\ points[1] = Point(state.time, state.altitude)
              /\ \A j \in 1..(n - 1) :
                   /\ points[j + 1].time - points[j].time = TicksPerSecond \div 2
                   /\ j > 1 => points[j].predictedAltitude > 0
              /\ \A j \in 1..n : points[j].predictedAltitude >= 0
              /\ predictor.i > 0 /\ predictor.temp.altitude <= 0 =>
                   points[n].predictedAltitude = 0 /\ predictor.pc # "loop"
              /\ predictor.pc = "loop" => predictor.i < predictor.maxSteps
              /\ prediction # <<>> => prediction = points)
  /\ [][ predictor.pc = "loop" =>
           predictor'.i = predictor.i + 1 /\ predictor'.maxSteps = predictor.maxSteps
       ]_vars

\* A call that started above the ground has returned early: its last
\* sample, the only one at 0, came before the horizon.
C25_Witness ==
  /\ prediction # <<>>
  /\ Len(prediction) > 2
  /\ Len(prediction) < 1 + predictor.maxSteps
  /\ prediction[1].predictedAltitude > 0
  /\ prediction[Len(prediction)].predictedAltitude = 0

---------------------------------------------------------------------------
(* No re-ignition; the stages in order *)

\* C29: under calculateNextState, once the phase is DESCENT every later
\* phase is DESCENT, LANDED or CRASHED; and BURNING is entered only from
\* PRE_LAUNCH (by the driver's first tick, with activeStage 1) or from
\* STAGING (with activeStage 2), never from COASTING, DESCENT, BOOSTBACK,
\* RE-ENTRY, LANDING, LANDED or CRASHED.
C29_NoReignition ==
  [][ /\ state.phase \in {"DESCENT", "LANDED", "CRASHED"} =>
           state'.phase \in {"DESCENT", "LANDED", "CRASHED"}
      /\ state'.phase = "BURNING" /\ state.phase # "BURNING" =>
           \/ state.phase = "PRE_LAUNCH" /\ state'.activeStage = 1
           \/ state.phase = "STAGING" /\ state'.activeStage = 2 ]_vars

\* A descent with the stage-1 tank still full, stage 1 active and the
\* vehicle in the air at the last step: no step had lit the engine.
C29_Witness ==
  /\ state.phase = "DESCENT"
  /\ state.activeStage = 1
  /\ state.stage1Fuel = 8000 * FuelScale
  /\ state.altitude > 0
  /\ state.time = MaxStepTime

\* Under tick too BURNING is entered only from the pad or from STAGING,
\* also on the states of a stage-1 recovery, where the guidance block
\* may replace DESCENT by RE-ENTRY or LANDING.
BurningOnlyFromPadOrStaging ==
  [][ state'.phase = "BURNING" /\ state.phase # "BURNING" =>
        \/ state.phase = "PRE_LAUNCH" /\ state'.activeStage = 1
        \/ state.phase = "STAGING" /\ state'.activeStage = 2 ]_vars

\* C30: activeStage changes at most once in a run, from 1 to 2, only on a
\* step taken in phase STAGING, and never from 2 back to 1; stage2Fuel is
\* unchanged on every step taken with activeStage = 1, and stage1Fuel on
\* every step taken with activeStage = 2.
C30_StagesInOrder ==
  [][ /\ state'.activeStage # state.activeStage =>
           /\ state.activeStage = 1
           /\ state'.activeStage = 2
           /\ state.phase = "STAGING"
      /\ state.activeStage = 1 => state'.stage2Fuel = state.stage2Fuel
      /\ state.activeStage = 2 => state'.stage1Fuel = state.stage1Fuel ]_vars

\* Stage 2 burned its tank empty in one step while stage 1, no longer
\* active, kept the fuel it had.
C30_Witness ==
  /\ state.phase = "BURNING"
  /\ state.activeStage = 2
  /\ state.stage2Fuel = 0
  /\ state.stage1Fuel = 50
  /\ state.time = GraceTicks - 1

\* With the handlers of the simulation view the same holds of every step
\* but a reset, which makes stage 1 active again and refills both tanks.
StagesInOrderUntilReset ==
  [][ ~Reset =>
        /\ state'.activeStage # state.activeStage =>
             /\ state.activeStage = 1
             /\ state'.activeStage = 2
             /\ state.phase = "STAGING"
        /\ state.activeStage = 1 => state'.stage2Fuel = state.stage2Fuel
        /\ state.activeStage = 2 => state'.stage1Fuel = state.stage1Fuel ]_vars

=============================================================================
